---- MODULE Spec2Model ----
(***************************************************************************)
(* Threshold (3-share) Keccak permutation, the chained F function built on *)
(* it, and the 4-ary PRF tree iterator of the side-channel resistant       *)
(* SPHINCS+ reference code (src/ref).                                      *)
(*                                                                         *)
(* A 64-bit lane (uint64_t) is the set of its one bit positions, a subset  *)
(* of 0..63: xor is the symmetric difference, (~x & y) is y \ x, a         *)
(* rotation moves every position modulo 64.  A 3x25 lane state is a        *)
(* sequence of 75 lanes; C index j is element j+1.                         *)
(***************************************************************************)
EXTENDS Integers, Sequences, FiniteSets, TLC

VARIABLES
    \* one harness driving do_threshold_keccak_permutation
    pc,          \* "idle", "run" or "done"
    pending,     \* the calls still to make: <<instate, ...>>
    instate,     \* the running call's instate argument
    output_threshold,
    ks,          \* the running call's locals (A.., round, state, outstate)
    outs,        \* the calls that returned: [instate, output_threshold, outstate]
    passes       \* the passes of the for (round = 0;;) loop the running call made

permVars == << pc, pending, instate, output_threshold, ks, outs, passes >>

VARIABLES
    \* one caller of the PRF iterator
    n_leaves,    \* initialize_prf_iter's n
    stop_value,  \* initialize_prf_iter's stop_node argument
    it,          \* the struct prf_iter
    emitted,     \* what each next_prf_iter call returned and wrote to output
    hashed       \* the prf_hash_function calls made: [index, in, out]

iterVars == << n_leaves, stop_value, it, emitted, hashed >>

VARIABLES
    \* one run of wots_gen_leafx1, or one caller of the chain state functions
    SPX_N,       \* the parameter set's hash length in bytes
    sign_leaf,   \* leaf_idx == info->wots_sign_leaf
    wots_steps,  \* info->wots_steps
    split,       \* which masking the PRF gives its first output
    pub_seed,    \* ctx->pub_seed
    leaf_addr,   \* info->leaf_addr, as its 32 bytes
    cpc,         \* where the run stands
    chain_i,     \* i
    chain_k,     \* k
    wots_k,      \* wots_k, a uint32_t held as its one bit positions
    not_last_f,
    chain_state,
    wots_sig,    \* info->wots_sig, one entry per chain
    pk_buffer,   \* pk_buffer, one entry per chain
    f_calls,     \* per chain, the keep_blinded flags f_transform was called with
    presented,   \* per chain, the xor of the three running hash slots at each call
    ref_chain    \* per chain, the secret and its images under F, F^2, ..

chainVars == << SPX_N, sign_leaf, wots_steps, split, pub_seed, leaf_addr, cpc,
                chain_i, chain_k, wots_k, not_last_f, chain_state, wots_sig,
                pk_buffer, f_calls, presented, ref_chain >>

VARIABLES
    \* one call of initialize_prf_key
    params,      \* the parameter set: SPX_D, SPX_FULL_HEIGHT
    tree,        \* the uint64_t tree argument, as its one bit positions
    idx_leaf,
    ctx,         \* spx_ctx: sk_seed, merkle_key, fors_seed
    key_loc      \* the call's locals, and the addresses and leaves it used

keyVars == << params, tree, idx_leaf, ctx, key_loc >>

\* A caller of set_up_f_block, f_transform and
\* increment_hash_addr_in_chain_state on the chain state buffer
VARIABLES
    blk_op,      \* the last of these calls made: [op, arg]
    blk_count    \* the number of calls made
blockVars == << blk_op, blk_count >>

\* One case of the permutation's switch, run on its own
VARIABLES
    rnd          \* A.., round, the state before the case ran, the cases run
roundVars == << rnd >>

\* One call of eval_single_prf_leaf
VARIABLES
    leaf_loc     \* its arguments, its locals and the PRF calls it made
leafVars == << leaf_loc >>

\* One call of fors_sign
VARIABLES
    fors         \* its parameters and locals, and what it wrote to sig
forsVars == << fors >>

vars == << permVars, iterVars, chainVars, keyVars, blockVars, roundVars, leafVars,
           forsVars >>

\* ------------------------------------------------------------------------
\* uint64_t arithmetic on lanes
\* ------------------------------------------------------------------------

LaneBits == 64

Zero64 == {}

Xor(a, b) == (a \ b) \cup (b \ a)

Xor3(a, b, c) == Xor(Xor(a, b), c)

\* (~x) & y
AndNot(x, y) == y \ x

\* ROL(a, offset): (a << offset) ^ (a >> (64 - offset))
ROL(a, offset) == {(i + offset) % LaneBits : i \in a}

\* The bits of a 16-bit limb v, placed at bit position base
Limb(v, base) == {base + j : j \in {k \in 0..15 : (v \div (2^k)) % 2 = 1}}

\* The 64-bit constant 0x<h3><h2><h1><h0>ULL, from its four 16-bit limbs
U64(h3, h2, h1, h0) ==
    Limb(h3, 48) \cup Limb(h2, 32) \cup Limb(h1, 16) \cup Limb(h0, 0)

\* a + (1ULL << p), modulo 2^64: the carry runs up to the first clear bit
AddBit(a, p) ==
    LET clear == {q \in p..(LaneBits - 1) : q \notin a}
    IN  IF clear = {} THEN a \ (p..(LaneBits - 1))
        ELSE LET q == CHOOSE c \in clear : \A d \in clear : c <= d
             IN  (a \ (p..q)) \cup {q}

\* A sequence with its elements evaluated (a tuple)
Tuple(s) == s \o <<>>

\* A lane no code has written (the content of an uninitialised buffer)
Unwritten == {-1}

UnwrittenState == Tuple([j \in 1..75 |-> Unwritten])

\* ------------------------------------------------------------------------
\* fips202-threshold.c
\* ------------------------------------------------------------------------

KeccakF_RoundConstants ==
    << U64(\H0000, \H0000, \H0000, \H0001), U64(\H0000, \H0000, \H0000, \H8082),
       U64(\H8000, \H0000, \H0000, \H808a), U64(\H8000, \H0000, \H8000, \H8000),
       U64(\H0000, \H0000, \H0000, \H808b), U64(\H0000, \H0000, \H8000, \H0001),
       U64(\H8000, \H0000, \H8000, \H8081), U64(\H8000, \H0000, \H0000, \H8009),
       U64(\H0000, \H0000, \H0000, \H008a), U64(\H0000, \H0000, \H0000, \H0088),
       U64(\H0000, \H0000, \H8000, \H8009), U64(\H0000, \H0000, \H8000, \H000a),
       U64(\H0000, \H0000, \H8000, \H808b), U64(\H8000, \H0000, \H0000, \H008b),
       U64(\H8000, \H0000, \H0000, \H8089), U64(\H8000, \H0000, \H0000, \H8003),
       U64(\H8000, \H0000, \H0000, \H8002), U64(\H8000, \H0000, \H0000, \H0080),
       U64(\H0000, \H0000, \H0000, \H800a), U64(\H8000, \H0000, \H8000, \H000a),
       U64(\H8000, \H0000, \H8000, \H8081), U64(\H8000, \H0000, \H0000, \H8080),
       U64(\H0000, \H0000, \H8000, \H0001), U64(\H8000, \H0000, \H8000, \H8008) >>

\* enum keccak_state programs (BLINDED_ROUNDS == 3)
standard_output ==
    << "Keccak_3", "Keccak_3", "Keccak_3", "Do_Xor",
       "Keccak_1", "Keccak_1", "Keccak_1", "Keccak_1", "Keccak_1", "Keccak_1",
       "Keccak_1", "Keccak_1", "Keccak_1", "Keccak_1", "Keccak_1", "Keccak_1",
       "Keccak_1", "Keccak_1", "Keccak_1", "Keccak_1", "Keccak_1", "Keccak_1",
       "Keccak_1", "Keccak_1", "Keccak_1",
       "Output_1" >>

threshold_output ==
    << "Keccak_3", "Keccak_3", "Keccak_3", "Do_Xor",
       "Keccak_1", "Keccak_1", "Keccak_1", "Keccak_1", "Keccak_1", "Keccak_1",
       "Keccak_1", "Keccak_1", "Keccak_1", "Keccak_1", "Keccak_1", "Keccak_1",
       "Keccak_1", "Keccak_1", "Keccak_1", "Keccak_1", "Keccak_1", "Keccak_1",
       "Do_Xor",
       "Keccak_3", "Keccak_3", "Keccak_3",
       "Output_3" >>

\* state = output_threshold ? threshold_output : standard_output
Program(want_threshold) ==
    IF want_threshold # 0 THEN threshold_output ELSE standard_output

\* The lane each STEPn macro reads for the output row (b, g, k, m, s) and
\* column (a, e, i, o, u), and the ROL offset it applies (0: no rotation)
StepLane ==
    << << 0,  6, 12, 18, 24 >>,     \* STEP1: Aba Age Aki Amo Asu
       << 3,  9, 10, 16, 22 >>,     \* STEP2: Abo Agu Aka Ame Asi
       << 1,  7, 13, 19, 20 >>,     \* STEP3: Abe Agi Ako Amu Asa
       << 4,  5, 11, 17, 23 >>,     \* STEP4: Abu Aga Ake Ami Aso
       << 2,  8, 14, 15, 21 >> >>   \* STEP5: Abi Ago Aku Ama Ase

StepRol ==
    << <<  0, 44, 43, 21, 14 >>,
       << 28, 20,  3, 45, 61 >>,
       <<  1,  6, 25,  8, 18 >>,
       << 27, 36, 10, 15, 56 >>,
       << 62, 55, 39, 41,  2 >> >>

\* BCa..BCu of share x at the head of STEP1: the five column parities
ColumnParity(A, x) ==
    Tuple([c \in 1..5 |->
        Xor(Xor(Xor(Xor(A[25*x + c], A[25*x + 5 + c]), A[25*x + 10 + c]),
                A[25*x + 15 + c]), A[25*x + 20 + c])])

\* Da..Du of share x: D[c] = BC[c-1] ^ ROL(BC[c+1], 1)
ThetaD(BC) ==
    Tuple([c \in 1..5 |->
        Xor(BC[((c + 3) % 5) + 1], ROL(BC[(c % 5) + 1], 1))])

\* The BC values of all five STEPn macros of share x, 25 lanes, row by row:
\* BC = ROL(A ^ D, offset)
StepBC(A, x) ==
    LET D == ThetaD(ColumnParity(A, x))
    IN  Tuple([j \in 1..25 |->
            LET row == ((j - 1) \div 5) + 1
                col == ((j - 1) % 5) + 1
                src == StepLane[row][col]
                t   == Xor(A[25*x + src + 1], D[(src % 5) + 1])
            IN  IF StepRol[row][col] = 0 THEN t ELSE ROL(t, StepRol[row][col])])

\* Keccak_1 without Eba0 ^= KeccakF_RoundConstants[round]
Keccak_1_NoRoundConstant(A, round) ==
    LET BC == StepBC(A, 0)
    IN  Tuple([j \in 1..75 |->
            IF j > 25 THEN A[j]
            ELSE LET r  == (j - 1) \div 5
                     c  == (j - 1) % 5
                 IN  Xor(BC[j], AndNot(BC[5*r + ((c + 1) % 5) + 1],
                                       BC[5*r + ((c + 2) % 5) + 1]))])

\* One round on the unthresholded state in the '0' variables (case Keccak_1);
\* the '1' and '2' variables keep their values
Keccak_1(A, round) ==
    LET BC == StepBC(A, 0)
    IN  Tuple([j \in 1..75 |->
            IF j > 25 THEN A[j]
            ELSE LET r  == (j - 1) \div 5
                     c  == (j - 1) % 5
                     e  == Xor(BC[j], AndNot(BC[5*r + ((c + 1) % 5) + 1],
                                             BC[5*r + ((c + 2) % 5) + 1]))
                 IN  IF j = 1 THEN Xor(e, KeccakF_RoundConstants[round + 1])
                     ELSE e])

\* case Keccak_3 with the second product of every line taking the c share
\* of the first
Keccak_3_RepeatedProduct(A, round) ==
    LET BC == << StepBC(A, 0), StepBC(A, 1), StepBC(A, 2) >>
    IN  Tuple([j \in 1..75 |->
            LET x  == (j - 1) \div 25
                l  == ((j - 1) % 25) + 1
                r  == (l - 1) \div 5
                c  == (l - 1) % 5
                X(s) == BC[s + 1][5*r + ((c + 1) % 5) + 1]
                Y(s) == BC[s + 1][5*r + ((c + 2) % 5) + 1]
                e  == Xor(Xor(Xor(BC[x + 1][l],
                                  AndNot(X(0), Y(x))),
                              AndNot(X(1), Y(x))),
                          AndNot(X(2), Y((x + 2) % 3)))
            IN  IF j = 1 THEN Xor(e, KeccakF_RoundConstants[round + 1])
                ELSE e])

\* One round on the thresholded state (case Keccak_3)
Keccak_3(A, round) ==
    LET BC == << StepBC(A, 0), StepBC(A, 1), StepBC(A, 2) >>
    IN  Tuple([j \in 1..75 |->
            LET x  == (j - 1) \div 25
                l  == ((j - 1) % 25) + 1
                r  == (l - 1) \div 5
                c  == (l - 1) % 5
                X(s) == BC[s + 1][5*r + ((c + 1) % 5) + 1]
                Y(s) == BC[s + 1][5*r + ((c + 2) % 5) + 1]
                e  == Xor(Xor(Xor(BC[x + 1][l],
                                  AndNot(X(0), Y(x))),
                              AndNot(X(1), Y((x + 1) % 3))),
                          AndNot(X(2), Y((x + 2) % 3)))
            IN  IF j = 1 THEN Xor(e, KeccakF_RoundConstants[round + 1])
                ELSE e])

\* Do_Xor that also clears the two shares it folded into share 0
Do_Xor_ClearsShares(A) ==
    Tuple([j \in 1..75 |->
        IF j <= 25 THEN Xor(A[j], Xor(A[j + 25], A[j + 50])) ELSE Zero64])

\* Do_Xor folding only share 1 into share 0: A..0 ^= A..1
Do_Xor_Share1Only(A) ==
    Tuple([j \in 1..75 |-> IF j <= 25 THEN Xor(A[j], A[j + 25]) ELSE A[j]])

\* case Do_Xor: A..0 ^= A..1 ^ A..2
Do_Xor(A) ==
    Tuple([j \in 1..75 |->
        IF j <= 25 THEN Xor(A[j], Xor(A[j + 25], A[j + 50])) ELSE A[j]])

\* DO_OUTPUT(x): the first four lanes of share x
DO_OUTPUT(outstate, A, x) ==
    Tuple([j \in 1..Len(outstate) |->
        IF j - 1 \in (25*x)..(25*x + 3) THEN A[j] ELSE outstate[j]])

\* The locals of do_threshold_keccak_permutation after LOADSTATE
LoadState(in, out, want_threshold) ==
    [A |-> in, round |-> 0, state |-> 1, outstate |-> out,
     program |-> Program(want_threshold), returned |-> FALSE]

\* The loop with round++ in the Do_Xor case as well
KeccakStep_XorCounts(loc) ==
    LET op == loc.program[loc.state]
        nx == [loc EXCEPT !.state = loc.state + 1]
    IN  CASE op = "Keccak_1" ->
                [nx EXCEPT !.A = Keccak_1(loc.A, loc.round), !.round = loc.round + 1]
          [] op = "Keccak_3" ->
                [nx EXCEPT !.A = Keccak_3(loc.A, loc.round), !.round = loc.round + 1]
          [] op = "Do_Xor" ->
                [nx EXCEPT !.A = Do_Xor(loc.A), !.round = loc.round + 1]
          [] op = "Output_1" ->
                [nx EXCEPT !.outstate = DO_OUTPUT(loc.outstate, loc.A, 0),
                           !.returned = TRUE]
          [] op = "Output_3" ->
                [nx EXCEPT !.outstate =
                        DO_OUTPUT(DO_OUTPUT(DO_OUTPUT(loc.outstate, loc.A, 0),
                                            loc.A, 1), loc.A, 2),
                           !.returned = TRUE]

\* One pass of for (round = 0;;) switch (*state++)
KeccakStep(loc) ==
    LET op == loc.program[loc.state]
        nx == [loc EXCEPT !.state = loc.state + 1]
    IN  CASE op = "Keccak_1" ->
                [nx EXCEPT !.A = Keccak_1(loc.A, loc.round), !.round = loc.round + 1]
          [] op = "Keccak_3" ->
                [nx EXCEPT !.A = Keccak_3(loc.A, loc.round), !.round = loc.round + 1]
          [] op = "Do_Xor" ->
                [nx EXCEPT !.A = Do_Xor(loc.A)]
          [] op = "Output_1" ->
                [nx EXCEPT !.outstate = DO_OUTPUT(loc.outstate, loc.A, 0),
                           !.returned = TRUE]
          [] op = "Output_3" ->
                [nx EXCEPT !.outstate =
                        DO_OUTPUT(DO_OUTPUT(DO_OUTPUT(loc.outstate, loc.A, 0),
                                            loc.A, 1), loc.A, 2),
                           !.returned = TRUE]

RECURSIVE KeccakLoop(_)
KeccakLoop(loc) == IF loc.returned THEN loc ELSE KeccakLoop(KeccakStep(loc))

\* The outstate do_threshold_keccak_permutation leaves
do_threshold_keccak_permutation(in, out, want_threshold) ==
    KeccakLoop(LoadState(in, out, want_threshold)).outstate


\* ------------------------------------------------------------------------
\* prf.c
\* ------------------------------------------------------------------------

\* A 3 SPX_N byte buffer no code has written
Unset == << -1 >>

\* An unsigned field or array entry no code has written
UnsetInt == -1

\* The root value handed to the PRF tree, 3 SPX_N bytes taken as a whole
Seed == << 0 >>

\* prf_hash_function(out, ctx, addr, in) with set_prf_index(addr, index):
\* the three output shares, an injective function of the input shares and
\* the PRF index (ctx and the other address fields are fixed per tree).
\* A value is the sequence of the PRF indices applied to the seed.
prf_hash_function(in, index) == Append(in, index)

\* struct prf_iter before initialize_prf_iter
NoIter ==
    [num_node |-> UnsetInt, min_node |-> UnsetInt, stop_node |-> UnsetInt,
     cur_node |-> UnsetInt, node |-> [k \in 1..12 |-> UnsetInt] \o << >>,
     count |-> [k \in 1..12 |-> UnsetInt] \o << >>, addr |-> UnsetInt,
     node_value |-> [k \in 1..12 |-> Unset] \o << >>]

\* array[k] = v on a C array held as a sequence (index k is element k + 1)
Store(array, k, v) == [array EXCEPT ![k + 1] = v]

\* The path with the parent of node i taken as i / 4
RECURSIVE PathStack_ParentQuarter(_)
PathStack_ParentQuarter(i) ==
    IF i > 0 THEN << i >> \o PathStack_ParentQuarter(i \div 4) ELSE << >>

\* The path with the parent of node i taken as (i - 1) / 2
RECURSIVE PathStack_ParentHalf(_)
PathStack_ParentHalf(i) ==
    IF i > 0 THEN << i >> \o PathStack_ParentHalf((i - 1) \div 2) ELSE << >>

\* The path from node i to the root, bottom up: stack[0..sp-1]
RECURSIVE PathStack(_)
PathStack(i) == IF i > 0 THEN << i >> \o PathStack((i - 1) \div 4) ELSE << >>

\* The descent of eval_single_prf_leaf over stack[j], j = sp-1 .. 0
RECURSIVE EvalDescent(_, _, _)
EvalDescent(stack, j, prev_node) ==
    IF j >= 0
    THEN EvalDescent(stack, j - 1, prf_hash_function(prev_node, stack[j + 1]))
    ELSE prev_node

\* eval_single_prf_leaf with the first external node taken as n / 3
eval_single_prf_leaf_FloorThird(root, i, n) ==
    LET stack == PathStack(i + (n \div 3))
        sp    == Len(stack)
    IN  IF sp = 0 THEN Unset ELSE EvalDescent(stack, sp - 1, root)

\* eval_single_prf_leaf: the output written for leaf i of an n leaf tree;
\* Unset when the descent makes no call
eval_single_prf_leaf(root, i, n) ==
    LET stack == PathStack(i + ((n + 1) \div 3))
        sp    == Len(stack)
    IN  IF sp = 0 THEN Unset ELSE EvalDescent(stack, sp - 1, root)

\* The loop of initialize_prf_iter with count[k] = stack[j] % 4
RECURSIVE InitDescent_CountOfNode(_, _, _, _, _)
InitDescent_CountOfNode(iter, calls, stack, j, k) ==
    IF j >= 0
    THEN LET out == prf_hash_function(iter.node_value[k], stack[j + 1])
         IN  InitDescent_CountOfNode(
                 [iter EXCEPT !.node = Store(@, k, stack[j + 1]),
                              !.count = Store(@, k, stack[j + 1] % 4),
                              !.addr = stack[j + 1],
                              !.node_value = Store(@, k, out)],
                 Append(calls, [index |-> stack[j + 1],
                                in |-> iter.node_value[k], out |-> out]),
                 stack, j - 1, k + 1)
    ELSE [it |-> iter, calls |-> calls]

\* The for loop of initialize_prf_iter over j = sp-1 .. 0, k = 1 ..:
\* the iterator and the calls made, in order
RECURSIVE InitDescent(_, _, _, _, _)
InitDescent(iter, calls, stack, j, k) ==
    IF j >= 0
    THEN LET out == prf_hash_function(iter.node_value[k], stack[j + 1])
         IN  InitDescent(
                 [iter EXCEPT !.node = Store(@, k, stack[j + 1]),
                              !.count = Store(@, k, (stack[j + 1] + 3) % 4),
                              !.addr = stack[j + 1],
                              !.node_value = Store(@, k, out)],
                 Append(calls, [index |-> stack[j + 1],
                                in |-> iter.node_value[k], out |-> out]),
                 stack, j - 1, k + 1)
    ELSE [it |-> iter, calls |-> calls]

\* initialize_prf_iter with min_node taken as n / 3
initialize_prf_iter_FloorThird(n, stop, seed) ==
    LET min_node == n \div 3
        stack    == PathStack(min_node)
        sp       == Len(stack)
        top      == [NoIter EXCEPT !.min_node = min_node,
                                   !.stop_node = stop + min_node,
                                   !.addr = 0,
                                   !.node = Store(@, 0, 0),
                                   !.count = Store(@, 0, 0),
                                   !.node_value = Store(@, 0, seed)]
        down     == InitDescent(top, << >>, stack, sp - 1, 1)
    IN  [it |-> [down.it EXCEPT !.num_node = sp + 1, !.cur_node = min_node],
         calls |-> down.calls]

\* initialize_prf_iter(it, n, stop_node, seed, ctx, addr) on a struct whose
\* fields hold nothing yet
initialize_prf_iter(n, stop, seed) ==
    LET min_node == (n + 1) \div 3
        stack    == PathStack(min_node)
        sp       == Len(stack)
        top      == [NoIter EXCEPT !.min_node = min_node,
                                   !.stop_node = stop + min_node,
                                   !.addr = 0,
                                   !.node = Store(@, 0, 0),
                                   !.count = Store(@, 0, 0),
                                   !.node_value = Store(@, 0, seed)]
        down     == InitDescent(top, << >>, stack, sp - 1, 1)
    IN  [it |-> [down.it EXCEPT !.num_node = sp + 1, !.cur_node = min_node],
         calls |-> down.calls]

\* The carry search with the digit test count[i] <= 3
RECURSIVE CarrySearch_LeqThree(_, _)
CarrySearch_LeqThree(iter, i) ==
    IF i = 0 THEN 0
    ELSE IF iter.count[i] <= 3 THEN i - 1
    ELSE CarrySearch_LeqThree(iter, i - 1)

\* The search for the digit where the carry stops: from i, the final i
RECURSIVE CarrySearch(_, _)
CarrySearch(iter, i) ==
    IF i = 0 THEN 0
    ELSE IF iter.count[i] < 3 THEN i - 1      \* count[i - 1] after i--
    ELSE CarrySearch(iter, i - 1)

\* for (; i < it->num_node; i++): reset the lower digits to 0
RECURSIVE ResetDigits(_, _, _)
ResetDigits(iter, calls, i) ==
    IF i < iter.num_node
    THEN LET v   == 4 * iter.node[i] + 1       \* 4 * node[i - 1] + 1
             out == prf_hash_function(iter.node_value[i], v)
         IN  ResetDigits(
                 [iter EXCEPT !.count = Store(@, i, 0),
                              !.node = Store(@, i, v),
                              !.addr = v,
                              !.node_value = Store(@, i, out)],
                 Append(calls, [index |-> v, in |-> iter.node_value[i],
                                out |-> out]),
                 i + 1)
    ELSE [it |-> iter, calls |-> calls]

\* The else branch of next_prf_iter: compute the node after this one
Advance(iter) ==
    LET i == CarrySearch(iter, iter.num_node)
    IN  IF i > 0
        THEN LET v   == iter.node[i + 1] + 1
                 out == prf_hash_function(iter.node_value[i], v)
             IN  ResetDigits(
                     [iter EXCEPT !.count = Store(@, i, iter.count[i + 1] + 1),
                                  !.node = Store(@, i, v),
                                  !.addr = v,
                                  !.node_value = Store(@, i, out)],
                     << [index |-> v, in |-> iter.node_value[i], out |-> out] >>,
                     i + 1)
        ELSE ResetDigits([iter EXCEPT !.num_node = @ + 1], << >>, i + 1)

\* next_prf_iter returning the node number instead of the external index
next_prf_iter_NodeNumber(iter) ==
    IF iter.cur_node = -1
    THEN [ret |-> -1, output |-> Unset, it |-> iter, calls |-> << >>]
    ELSE LET output  == iter.node_value[iter.num_node]
             step    == IF iter.cur_node = iter.stop_node
                        THEN [it |-> [iter EXCEPT !.cur_node = -1], calls |-> << >>]
                        ELSE Advance(iter)
         IN  [ret |-> iter.cur_node, output |-> output,
              it |-> [step.it EXCEPT !.cur_node = @ + 1],
              calls |-> step.calls]

\* next_prf_iter(output, it): the value returned, the output written
\* (Unset: output is not written), the iterator and the calls made
next_prf_iter(iter) ==
    IF iter.cur_node = -1
    THEN [ret |-> -1, output |-> Unset, it |-> iter, calls |-> << >>]
    ELSE LET ret_val == iter.cur_node - iter.min_node
             output  == iter.node_value[iter.num_node]
             step    == IF iter.cur_node = iter.stop_node
                        THEN [it |-> [iter EXCEPT !.cur_node = -1], calls |-> << >>]
                        ELSE Advance(iter)
         IN  [ret |-> ret_val, output |-> output,
              it |-> [step.it EXCEPT !.cur_node = @ + 1],
              calls |-> step.calls]

\* ------------------------------------------------------------------------
\* f-threshold.c.  A byte string is a sequence of integers 0..255.
\* ------------------------------------------------------------------------

\* The hash length in uint64_t's
N == SPX_N \div 8

\* The offset of the running hash in the chain state
OFFSET_HASH == N + 32 \div 8

\* The byte of the ADRS structure that holds the hash address (SHAKE layout)
SPX_OFFSET_HASH_ADDR == 31

\* in[i] shifted to byte i of a lane
ByteBits(b, i) == {8 * i + t : t \in {u \in 0..7 : (b \div (2^u)) % 2 = 1}}

\* transform_f with byte i of a group at bits 8(7-i) .. 8(7-i)+7
transform_f_BigEndian(input, num_bytes) ==
    Tuple([l \in 1..((num_bytes + 7) \div 8) |->
        UNION {ByteBits(input[8 * (l - 1) + i + 1], 7 - i) : i \in 0..7}])

\* transform_f: the lanes written to output, eight input bytes per lane,
\* byte i of a group at bits 8i .. 8i+7
transform_f(input, num_bytes) ==
    Tuple([l \in 1..((num_bytes + 7) \div 8) |->
        UNION {ByteBits(input[8 * (l - 1) + i + 1], i) : i \in 0..7}])

\* (val >> 8j) & 0xff
LaneByte(val, j) ==
    LET bit(t) == IF (8 * j + t) \in val THEN 2^t ELSE 0
    IN  bit(0) + bit(1) + bit(2) + bit(3) + bit(4) + bit(5) + bit(6) + bit(7)

\* untransform_f: the SPX_N bytes written to result
untransform_f(encoded) ==
    Tuple([p \in 1..SPX_N |-> LaneByte(encoded[((p - 1) \div 8) + 1], (p - 1) % 8)])

\* lanes written to &cs[at]
WriteLanes(cs, at, lanes) ==
    Tuple([j \in 1..Len(cs) |->
        IF (j - 1) \in at..(at + Len(lanes) - 1) THEN lanes[j - at] ELSE cs[j]])

\* memset(&cs[at], 0, 8 * count)
ZeroLanes(cs, at, count) ==
    Tuple([j \in 1..Len(cs) |->
        IF (j - 1) \in at..(at + count - 1) THEN Zero64 ELSE cs[j]])

\* set_up_f_block whose memset stops at the end of share 1
set_up_f_block_ShortMemset(cs, prf_output, seed, addr) ==
    LET z  == ZeroLanes(cs, OFFSET_HASH + N, 2 * 25 - (OFFSET_HASH + N))
        s0 == WriteLanes(z, 0, transform_f(seed, SPX_N))
        s1 == WriteLanes(s0, N, transform_f(addr, 32))
        h0 == WriteLanes(s1, N + 32 \div 8,
                         transform_f(SubSeq(prf_output, 1, SPX_N), SPX_N))
        h1 == WriteLanes(h0, N + 32 \div 8 + 25,
                         transform_f(SubSeq(prf_output, SPX_N + 1, 2 * SPX_N), SPX_N))
        h2 == WriteLanes(h1, N + 32 \div 8 + 50,
                         transform_f(SubSeq(prf_output, 2 * SPX_N + 1, 3 * SPX_N), SPX_N))
        m  == [h2 EXCEPT ![N + 32 \div 8 + N + 1] = {0, 1, 2, 3, 4}]
    IN  [m EXCEPT ![16 + 1] = Xor(@, {63})]

\* set_up_f_block: the chain state it leaves (it returns OFFSET_HASH)
set_up_f_block(cs, prf_output, seed, addr) ==
    LET z  == ZeroLanes(cs, OFFSET_HASH + N, 3 * 25 - (OFFSET_HASH + N))
        s0 == WriteLanes(z, 0, transform_f(seed, SPX_N))
        s1 == WriteLanes(s0, N, transform_f(addr, 32))
        h0 == WriteLanes(s1, N + 32 \div 8,
                         transform_f(SubSeq(prf_output, 1, SPX_N), SPX_N))
        h1 == WriteLanes(h0, N + 32 \div 8 + 25,
                         transform_f(SubSeq(prf_output, SPX_N + 1, 2 * SPX_N), SPX_N))
        h2 == WriteLanes(h1, N + 32 \div 8 + 50,
                         transform_f(SubSeq(prf_output, 2 * SPX_N + 1, 3 * SPX_N), SPX_N))
        m  == [h2 EXCEPT ![N + 32 \div 8 + N + 1] = {0, 1, 2, 3, 4}]   \* 0x1f
    IN  [m EXCEPT ![16 + 1] = Xor(@, {63})]

\* The increment with the shift 8 * (SPX_OFFSET_HASH_ADDR / 8)
increment_hash_addr_SwappedShift(cs) ==
    [cs EXCEPT ![N + (SPX_OFFSET_HASH_ADDR \div 8) + 1] =
                    AddBit(@, 8 * (SPX_OFFSET_HASH_ADDR \div 8))]

\* increment_hash_addr_in_chain_state
increment_hash_addr_in_chain_state(cs) ==
    [cs EXCEPT ![N + (SPX_OFFSET_HASH_ADDR \div 8) + 1] =
                    AddBit(@, 8 * (SPX_OFFSET_HASH_ADDR % 8))]

\* f_transform that copies share 0 back whatever keep_blinded is
f_transform_Share0Only(cs, keep_blinded) ==
    LET output_state ==
            do_threshold_keccak_permutation(cs, UnwrittenState, keep_blinded)
    IN  WriteLanes(cs, OFFSET_HASH, SubSeq(output_state, 1, N))

\* f_transform that copies the three shares back whatever keep_blinded is
f_transform_AllShares(cs, keep_blinded) ==
    LET output_state ==
            do_threshold_keccak_permutation(cs, UnwrittenState, keep_blinded)
    IN  WriteLanes(
            WriteLanes(WriteLanes(cs, OFFSET_HASH, SubSeq(output_state, 1, N)),
                       OFFSET_HASH + 25, SubSeq(output_state, 26, 25 + N)),
            OFFSET_HASH + 50, SubSeq(output_state, 51, 50 + N))

\* f_transform: the chain state it leaves
f_transform(cs, keep_blinded) ==
    LET output_state ==
            do_threshold_keccak_permutation(cs, UnwrittenState, keep_blinded)
        c0 == WriteLanes(cs, OFFSET_HASH, SubSeq(output_state, 1, N))
    IN  IF keep_blinded # 0
        THEN WriteLanes(
                 WriteLanes(c0, OFFSET_HASH + 25, SubSeq(output_state, 26, 25 + N)),
                 OFFSET_HASH + 50, SubSeq(output_state, 51, 50 + N))
        ELSE c0

\* ------------------------------------------------------------------------
\* wotsx1.c
\* ------------------------------------------------------------------------

SPX_WOTS_W == 16

\* SPX_WOTS_LEN: 2 SPX_N hash digits and 3 checksum digits in base 16
SPX_WOTS_LEN == 2 * SPX_N + 3

\* The offsets of the ADRS fields wots_gen_leafx1 sets (SHAKE layout)
SPX_OFFSET_TYPE == 19

SPX_OFFSET_CHAIN_ADDR == 27

SPX_ADDR_TYPE_WOTS == 0

\* A uint32_t below 2^31 as its one bit positions
Bits32(v) == {t \in 0..30 : (v \div (2^t)) % 2 = 1}

\* wots_k_mask with 0xf on the leaves that do not sign
wots_k_mask_LowBits(signing) == IF signing THEN {} ELSE 0..3

\* wots_k_mask: 0 on the signing leaf, (uint32_t)~0 otherwise
wots_k_mask(signing) == IF signing THEN {} ELSE 0..31

\* set_type, set_chain_addr or set_hash_addr: one byte of the address
SetAddrByte(addr, offset, v) == [addr EXCEPT ![offset + 1] = v]

\* if (k == SPX_WOTS_W - 1) not_last_f = 0
ClearNotLast_OneLate(kk, nl) == IF kk = SPX_WOTS_W - 1 THEN 0 ELSE nl

\* if (k == SPX_WOTS_W - 2) not_last_f = 0
ClearNotLast(kk, nl) == IF kk = SPX_WOTS_W - 2 THEN 0 ELSE nl

\* The signature value taken from share 0 whatever not_last_f is
SigValue_Share0(cs, value_offset, nl) ==
    SubSeq(cs, value_offset + 1, value_offset + N)

\* The value saved as part of the WOTS signature: unblinded in the middle
\* of the chain, share 0 at the top
SigValue(cs, value_offset, nl) ==
    IF nl # 0
    THEN Tuple([m \in 1..N |->
             Xor3(cs[m + value_offset], cs[m + value_offset + 25],
                  cs[m + value_offset + 50])])
    ELSE SubSeq(cs, value_offset + 1, value_offset + N)

\* ------------------------------------------------------------------------
\* prf.c: initialize_prf_key
\* ------------------------------------------------------------------------

SPX_D == params.d

SPX_FULL_HEIGHT == params.full_height

SPX_TREE_HEIGHT == SPX_FULL_HEIGHT \div SPX_D

\* The address type of the PRF trees of the Merkle trees
SPX_ADDR_TYPE_PRF_MERKLE == 7

\* val >> shift on a uint64_t, 0 <= shift < 64
ShiftRight(val, shift) == {b - shift : b \in {c \in val : c >= shift}}

\* shiftr with the shift taken modulo 64, as a bare val >> shift may behave
shiftr_Wrap(val, shift) == ShiftRight(val, shift % 64)

\* shiftr(val, shift)
shiftr(val, shift) == IF shift >= 64 THEN {} ELSE ShiftRight(val, shift)

\* The value of a set of bit positions below 31
RECURSIVE BitsValue(_)
BitsValue(bits) ==
    IF bits = {} THEN 0
    ELSE LET b == CHOOSE c \in bits : TRUE IN 2^b + BitsValue(bits \ {b})

\* The leaf taken from the bits of tree at tree_shift itself
ChildLeaf_ParentShift(lvl, shift) ==
    IF lvl = 0 THEN idx_leaf
    ELSE BitsValue(ShiftRight(tree, shift) \cap (0..(SPX_TREE_HEIGHT - 1)))

\* The leaf masked with (1 << (SPX_TREE_HEIGHT + 1)) - 1
ChildLeaf_WideMask(lvl, shift) ==
    IF lvl = 0 THEN idx_leaf
    ELSE BitsValue((ShiftRight(tree, shift - SPX_TREE_HEIGHT) \cap (0..31))
                       \cap (0..SPX_TREE_HEIGHT))

\* leaf: idx_leaf at level 0, otherwise
\* (uint32_t)(tree >> (tree_shift - SPX_TREE_HEIGHT)) & ((1 << SPX_TREE_HEIGHT) - 1)
ChildLeaf(lvl, shift) ==
    IF lvl = 0 THEN idx_leaf
    ELSE BitsValue((ShiftRight(tree, shift - SPX_TREE_HEIGHT) \cap (0..31))
                       \cap (0..(SPX_TREE_HEIGHT - 1)))

\* uint32_t addr[8] = {0} after set_type, set_layer_addr and set_tree_addr
KeyAddr(lvl, shift) ==
    [type |-> SPX_ADDR_TYPE_PRF_MERKLE, layer |-> lvl, tree |-> shiftr(tree, shift)]

\* One pass of the for (level ..) loop of initialize_prf_key: the ctx and
\* the locals it leaves
KeyLevel(c, loc) ==
    LET lvl   == loc.level
        leaf  == ChildLeaf(lvl, loc.tree_shift)
        i     == leaf + SPX_WOTS_LEN * (2^SPX_TREE_HEIGHT)
        n     == (SPX_WOTS_LEN + 1) * (2^SPX_TREE_HEIGHT)
        child == eval_single_prf_leaf(loc.parent_seed, i, n)
    IN  [ctx |-> IF lvl = 0
                 THEN [c EXCEPT !.fors_seed = child]
                 ELSE [c EXCEPT !.merkle_key = Store(@, lvl - 1, child)],
         loc |-> [loc EXCEPT
                    !.level = lvl - 1,
                    !.tree_shift = loc.tree_shift - SPX_TREE_HEIGHT,
                    !.parent_seed = child,
                    !.addrs = Append(@, [level |-> lvl,
                                         addr |-> KeyAddr(lvl, loc.tree_shift)]),
                    !.leaves = Append(@, [level |-> lvl, i |-> i, n |-> n]),
                    !.pc = IF lvl - 1 >= 0 THEN "loop" ELSE "done"]]

\* ------------------------------------------------------------------------
\* Standard Keccak-p[1600, 24] (FIPS 202, section 3): the reference the
\* threshold permutation is compared with.  A[x, y] is element x + 5y + 1.
\* ------------------------------------------------------------------------

At(S, px, py) == S[(px % 5) + 5 * (py % 5) + 1]

StdTheta(S) ==
    LET C == Tuple([c \in 1..5 |->
                 Xor(Xor(Xor(Xor(At(S, c - 1, 0), At(S, c - 1, 1)),
                             At(S, c - 1, 2)), At(S, c - 1, 3)), At(S, c - 1, 4))])
        D == Tuple([c \in 1..5 |->
                 Xor(C[((c + 3) % 5) + 1], ROL(C[(c % 5) + 1], 1))])
    IN  Tuple([j \in 1..25 |-> Xor(S[j], D[((j - 1) % 5) + 1])])

\* (x, y) after t steps of (x, y) <- (y, (2x + 3y) mod 5) from (1, 0)
RECURSIVE RhoPos(_)
RhoPos(t) ==
    IF t = 0 THEN << 1, 0 >>
    ELSE LET p == RhoPos(t - 1) IN << p[2], (2 * p[1] + 3 * p[2]) % 5 >>

StdRhoOffsets ==
    Tuple([j \in 1..25 |->
        IF j = 1 THEN 0
        ELSE LET t == CHOOSE u \in 0..23 :
                          RhoPos(u) = << (j - 1) % 5, (j - 1) \div 5 >>
             IN  (((t + 1) * (t + 2)) \div 2) % LaneBits])

StdRho(S) == Tuple([j \in 1..25 |-> ROL(S[j], StdRhoOffsets[j])])

StdPi(S) ==
    Tuple([j \in 1..25 |->
        LET px == (j - 1) % 5
            py == (j - 1) \div 5
        IN  At(S, px + 3 * py, px)])

StdChi(S) ==
    Tuple([j \in 1..25 |->
        LET px == (j - 1) % 5
            py == (j - 1) \div 5
        IN  Xor(S[j], AndNot(At(S, px + 1, py), At(S, px + 2, py)))])

\* v with bit k flipped, v a natural number
FlipBit(v, k) == IF (v \div (2^k)) % 2 = 1 THEN v - 2^k ELSE v + 2^k

\* One shift of the 8-bit LFSR of rc(t), the register R as a number with
\* R[i] its bit i: R = 0 || R, R[0,4,5,6] ^= R[8], R = Trunc8[R]
LfsrShift(R) ==
    IF 2 * R >= 256
    THEN FlipBit(FlipBit(FlipBit(FlipBit(2 * R - 256, 0), 4), 5), 6)
    ELSE 2 * R

\* The registers after 1..7 shifts from R
LfsrShift7(R) ==
    LET R1 == LfsrShift(R)
        R2 == LfsrShift(R1)
        R3 == LfsrShift(R2)
        R4 == LfsrShift(R3)
        R5 == LfsrShift(R4)
        R6 == LfsrShift(R5)
        R7 == LfsrShift(R6)
    IN  << R1, R2, R3, R4, R5, R6, R7 >>

\* RC of rounds ir..23, R the register as round ir begins: bit 2^j - 1 of
\* RC[ir] is rc(j + 7 ir), bit 1 of the register after j + 1 more shifts
RECURSIVE StdRCFrom(_, _)
StdRCFrom(R, ir) ==
    IF ir = 24 THEN << >>
    ELSE LET regs == LfsrShift7(R)
         IN  << {2^j - 1 : j \in {i \in 0..6 : (regs[i + 1] \div 2) % 2 = 1}} >>
                 \o StdRCFrom(regs[7], ir + 1)

StdRC == StdRCFrom(1, 0)

StdIota(S, ir) == [S EXCEPT ![1] = Xor(S[1], StdRC[ir + 1])]

StdRnd(S, ir) == StdIota(StdChi(StdPi(StdRho(StdTheta(S)))), ir)

RECURSIVE StdRounds(_, _)
StdRounds(S, ir) ==
    IF Len(S) = 25 /\ ir < 24 THEN StdRounds(StdRnd(S, ir), ir + 1) ELSE S

KeccakP1600(S) == StdRounds(S, 0)

\* The logical state of a 3x25 lane state: the lane-wise xor of its shares
Collapse(T) == Tuple([j \in 1..25 |-> Xor3(T[j], T[j + 25], T[j + 50])])

\* The first four lanes a call promises, as the caller reads them
LogicalOut(outstate, ot) ==
    IF ot # 0
    THEN Tuple([j \in 1..4 |-> Xor3(outstate[j], outstate[j + 25], outstate[j + 50])])
    ELSE SubSeq(outstate, 1, 4)

\* ------------------------------------------------------------------------
\* Inputs
\* ------------------------------------------------------------------------

NumLogical == 2

NumMasks == 2

\* Test data: lane j of pattern k has bit b set when
\* ((64 j + b + 1)^2 mod 1009) (k + 1) + k modulo 1009 is odd
TestLane(k, j) ==
    {b \in 0..63 :
        (((((64 * j + b + 1) * (64 * j + b + 1)) % 1009) * (k + 1) + k) % 1009) % 2 = 1}

\* Logical state m, lane j (0-based)
PatternLane(m, j) == TestLane(m, j)

\* Mask pair q, share x in {1, 2}, lane j; mask pair 0 is all zero
MaskLane(q, x, j) == IF q = 0 THEN Zero64 ELSE TestLane(10 + 2 * q + x, j)

\* The share triple of logical state m under mask pair q:
\* (S ^ M1 ^ M2, M1, M2); q = 0 gives (S, 0, 0)
ShareTriple(m, q) ==
    Tuple([j \in 1..75 |->
        LET x == (j - 1) \div 25
            l == (j - 1) % 25
        IN  IF x = 0
            THEN Xor3(PatternLane(m, l), MaskLane(q, 1, l), MaskLane(q, 2, l))
            ELSE MaskLane(q, x, l)])

\* Test data: byte p of byte string kk
TestByte(kk, p) == ((((p + 1) * (p + 1) * (kk + 3)) + 7 * kk + 13 * p) % 1009) % 256

\* The xor of two bytes
ByteXor(a, b) ==
    LET bit(t) == (2^t) * ((((a \div (2^t)) % 2) + ((b \div (2^t)) % 2)) % 2)
    IN  bit(0) + bit(1) + bit(2) + bit(3) + bit(4) + bit(5) + bit(6) + bit(7)

\* The logical SPX_N byte secret of PRF tree node v
SecretBytes(v) == Tuple([p \in 1..SPX_N |-> TestByte(20 + v, p)])

\* Mask x in {1, 2} of masking q for the value of node v; masking 0 is zero
MaskBytes(q, x, v) ==
    Tuple([p \in 1..SPX_N |-> IF q = 0 THEN 0 ELSE TestByte(40 + 7 * q + 3 * x + v, p)])

\* The 3 SPX_N bytes prf_hash_function writes for a node value: three shares
\* (S ^ M1 ^ M2, M1, M2) of the node's secret, under masking q
PrfOutputBytes(value, q) ==
    LET v  == value[Len(value)]
        m1 == MaskBytes(q, 1, v)
        m2 == MaskBytes(q, 2, v)
        s0 == Tuple([p \in 1..SPX_N |->
                  ByteXor(ByteXor(SecretBytes(v)[p], m1[p]), m2[p])])
    IN  s0 \o m1 \o m2

\* The WOTS chains run per leaf (of the SPX_WOTS_LEN the code runs)
MaxChains == 2

\* The wots_steps vectors tried: chain c of vector s has step s + 8 (c - 1)
NumStepVectors == 8

StepVector(s) == Tuple([c \in 1..MaxChains |-> (s + 8 * (c - 1)) % 16])

\* Calls made on a chain state by the free caller
MaxFreeOps == 4

\* A byte buffer no code has written
UnwrittenBytes == << -1 >>

\* No WOTS leaf is generated and no chain state exists
ChainIdle ==
    /\ SPX_N = 16
    /\ sign_leaf = FALSE
    /\ wots_steps = << >>
    /\ split = 0
    /\ pub_seed = << >>
    /\ leaf_addr = << >>
    /\ cpc = "off"
    /\ chain_i = 0
    /\ chain_k = 0
    /\ wots_k = {}
    /\ not_last_f = 0
    /\ chain_state = << >>
    /\ wots_sig = << >>
    /\ pk_buffer = << >>
    /\ f_calls = << >>
    /\ presented = << >>
    /\ ref_chain = << >>

\* The PRF trees walked: every leaf count up to MaxLeaves, and BigLeaves
MaxLeaves == 24

BigLeaves == 100

LeafCounts == (2..MaxLeaves) \cup {BigLeaves}

\* next_prf_iter calls made after the one that emitted the stop node
MaxExtraCalls == 2

NoCall == [A |-> << >>, round |-> 0, state |-> 1, outstate |-> << >>,
           program |-> << >>, returned |-> FALSE]

\* ------------------------------------------------------------------------
\* The permutation harness: two calls on two sharings of one logical state
\* ------------------------------------------------------------------------

\* fors_sign is not called
ForsIdle == fors = [pc |-> "off", k |-> 0, a |-> 0, m |-> << >>,
                    indices |-> << >>, i |-> 0, idx |-> 0, sig |-> << >>,
                    leaves |-> << >>]

\* initialize_prf_key is not called
BlockIdle ==
    /\ blk_op = [op |-> "none", arg |-> 0]
    /\ blk_count = 0

RoundIdle == rnd = [pc |-> "off", round |-> 0, done |-> 0,
                    start |-> << >>, A |-> << >>]

LeafIdle == leaf_loc = [pc |-> "off", root |-> << >>, leaf |-> 0, n |-> 0,
                        i |-> 0, stack |-> << >>, sp |-> 0, j |-> 0,
                        prev_node |-> << >>, output |-> << >>, calls |-> << >>]

KeyIdle ==
    /\ params = [d |-> 1, full_height |-> 1]
    /\ tree = {}
    /\ idx_leaf = 0
    /\ ctx = [sk_seed |-> << >>, merkle_key |-> << >>, fors_seed |-> << >>]
    /\ key_loc = [pc |-> "off", level |-> 0, tree_shift |-> 0,
                  parent_seed |-> << >>, addrs |-> << >>, leaves |-> << >>]

\* No PRF iterator exists
IterIdle ==
    /\ n_leaves = 0
    /\ stop_value = 0
    /\ it = NoIter
    /\ emitted = << >>
    /\ hashed = << >>

PermInit ==
    /\ ForsIdle
    /\ IterIdle
    /\ ChainIdle
    /\ KeyIdle
    /\ BlockIdle
    /\ RoundIdle
    /\ LeafIdle
    /\ pc = "idle"
    /\ \E m \in 1..NumLogical : \E q1 \in 0..NumMasks : \E q2 \in 0..NumMasks :
           pending = << ShareTriple(m, q1), ShareTriple(m, q2) >>
    /\ output_threshold \in {0, 1}
    /\ instate = << >>
    /\ ks = NoCall
    /\ outs = << >>
    /\ passes = 0

\* do_threshold_keccak_permutation is entered: LOADSTATE
PermCall ==
    /\ pc = "idle"
    /\ pending # << >>
    /\ instate' = Head(pending)
    /\ pending' = Tail(pending)
    /\ ks' = LoadState(Head(pending), UnwrittenState, output_threshold)
    /\ pc' = "run"
    /\ passes' = 0
    /\ UNCHANGED << output_threshold, outs, iterVars, chainVars, keyVars, blockVars,
                 roundVars, leafVars,
                 forsVars >>

\* one pass of the for (;;) switch
PermStep ==
    /\ pc = "run"
    /\ ~ks.returned
    /\ ks' = KeccakStep(ks)
    /\ passes' = passes + 1
    /\ UNCHANGED << pc, pending, instate, output_threshold, outs, iterVars, chainVars, keyVars, blockVars,
                 roundVars, leafVars,
                 forsVars >>

\* the return of Output_1 / Output_3
PermReturn ==
    /\ pc = "run"
    /\ ks.returned
    /\ outs' = Append(outs, [instate |-> instate,
                             output_threshold |-> output_threshold,
                             outstate |-> ks.outstate])
    /\ pc' = IF pending = << >> THEN "done" ELSE "idle"
    /\ UNCHANGED << pending, instate, output_threshold, ks, passes, iterVars, chainVars, keyVars, blockVars,
                 roundVars, leafVars,
                 forsVars >>

PermNext == PermCall \/ PermStep \/ PermReturn

SpecPerm == PermInit /\ [][PermNext]_vars

\* C1: whenever a call has reached its output step, the logical output
\* (lanes 0..3 unmasked, the xor of the three shares' lanes 0..3 masked) is
\* the first four lanes of Keccak-p[1600, 24] of the xor of the input shares.
C1_KeccakCompat ==
    (pc = "run" /\ ks.returned) =>
        LogicalOut(ks.outstate, output_threshold)
            = SubSeq(KeccakP1600(Collapse(instate)), 1, 4)

\* C1 witness: a call with unmasked output on a triple (x, 0, 0), x not
\* zero, has reached its output step
C1_Witness ==
    /\ pc = "run" /\ ks.returned
    /\ output_threshold = 0
    /\ \A j \in 26..75 : instate[j] = Zero64
    /\ \E j \in 1..25 : instate[j] # Zero64

\* C2: two returned calls whose inputs have the same lane-wise xor (and the
\* same want_masked_output) have the same xor-collapsed first four lanes.
C2_SharingIndependent ==
    \A a \in 1..Len(outs) : \A b \in 1..Len(outs) :
        (/\ Collapse(outs[a].instate) = Collapse(outs[b].instate)
         /\ outs[a].output_threshold = outs[b].output_threshold)
        => LogicalOut(outs[a].outstate, outs[a].output_threshold)
             = LogicalOut(outs[b].outstate, outs[b].output_threshold)

\* C2 witness: two calls on different sharings of one state have returned
\* with masked output
C2_Witness ==
    /\ Len(outs) = 2
    /\ outs[1].instate # outs[2].instate
    /\ Collapse(outs[1].instate) = Collapse(outs[2].instate)
    /\ outs[1].output_threshold = 1

\* ------------------------------------------------------------------------
\* The PRF iterator's caller: initialize_prf_iter, then next_prf_iter calls
\* ------------------------------------------------------------------------

\* No permutation call is made
PermIdle ==
    /\ pc = "done"
    /\ pending = << >>
    /\ instate = << >>
    /\ output_threshold = 0
    /\ ks = NoCall
    /\ outs = << >>
    /\ passes = 0

IterInit ==
    /\ ForsIdle
    /\ PermIdle
    /\ ChainIdle
    /\ KeyIdle
    /\ BlockIdle
    /\ RoundIdle
    /\ LeafIdle
    /\ n_leaves \in LeafCounts
    /\ stop_value \in 0..n_leaves
    /\ it = NoIter
    /\ emitted = << >>
    /\ hashed = << >>

InitializePrfIter ==
    /\ it = NoIter
    /\ LET r == initialize_prf_iter(n_leaves, stop_value, Seed)
       IN  /\ it' = r.it
           /\ hashed' = hashed \o r.calls
    /\ UNCHANGED << n_leaves, stop_value, emitted, permVars, chainVars, keyVars, blockVars,
                 roundVars, leafVars,
                 forsVars >>

NextPrfIter ==
    /\ it # NoIter
    /\ Len(emitted) < stop_value + 1 + MaxExtraCalls
    /\ LET r == next_prf_iter(it)
       IN  /\ it' = r.it
           /\ emitted' = Append(emitted, [ret |-> r.ret, output |-> r.output,
                                          calls |-> r.calls])
           /\ hashed' = hashed \o r.calls
    /\ UNCHANGED << n_leaves, stop_value, permVars, chainVars, keyVars, blockVars,
                 roundVars, leafVars,
                 forsVars >>

IterNext == InitializePrfIter \/ NextPrfIter

SpecIter == IterInit /\ [][IterNext]_vars

\* The value of tree node v (spec 4.3): the seed at the root, otherwise
\* PRF(parent value, prf index v), the parent of v being (v - 1) / 4
RECURSIVE NodeValue(_)
NodeValue(v) ==
    IF v = 0 THEN Seed ELSE prf_hash_function(NodeValue((v - 1) \div 4), v)

\* The first external node of an n leaf tree
MinNode(n) == (n + 1) \div 3

\* C4: the first stop + 1 calls return 0, 1, .., stop in this order, the
\* j-th writing the value of node min_node + j - 1 (node number order), and
\* the call that returns stop is the one that finds cur_node = stop_node:
\* stop_node - min_node + 1 leaves.
C4_IndexOrder ==
    (it # NoIter) =>
        /\ \A j \in 1..Len(emitted) :
               j <= stop_value + 1 =>
                   /\ emitted[j].ret = j - 1
                   /\ emitted[j].output = NodeValue(MinNode(n_leaves) + j - 1)
                   /\ (emitted[j].calls = << >>) <=> (j = stop_value + 1)
        /\ it.stop_node - it.min_node + 1 = stop_value + 1

\* C4 witness: all five leaves of the 5 leaf tree were emitted; they lie at
\* depths 1, 1, 1, 2, 2 (nodes 2, 3, 4, 5, 6), not in left-to-right order
C4_Witness ==
    /\ n_leaves = 5
    /\ stop_value = 4
    /\ Len(emitted) = 5
    /\ emitted[5].ret = 4

\* C5: every call after the one that emitted the stop node returns -1 and
\* emits nothing.
C5_EndSentinel ==
    \A j \in 1..Len(emitted) :
        j > stop_value + 1 =>
            /\ emitted[j].ret = -1
            /\ emitted[j].output = Unset

\* C6: with stop = n_leaves - 1 the i-th triple emitted (i = 0 .. n_leaves-1)
\* is the one eval_single_prf_leaf computes for external index i, and the
\* n_leaves-th call is the one that prepares no further triple.
C6_IterMatchesSingle ==
    (it # NoIter /\ stop_value = n_leaves - 1) =>
        \A j \in 1..Len(emitted) :
            j <= n_leaves =>
                /\ emitted[j].ret = j - 1
                /\ emitted[j].output # Unset
                /\ emitted[j].output = eval_single_prf_leaf(Seed, j - 1, n_leaves)
                /\ (emitted[j].calls = << >>) <=> (j = n_leaves)

\* C6 witness: the whole 17 leaf tree was emitted
C6_Witness ==
    /\ n_leaves = 17
    /\ stop_value = 16
    /\ Len(emitted) = 17

\* A full iteration: initialize_prf_iter and n_leaves calls, stop = n_leaves-1
FullIteration ==
    /\ it # NoIter
    /\ stop_value = n_leaves - 1
    /\ Len(emitted) = n_leaves

LastNode(n) == MinNode(n) + n - 1

\* The internal nodes below the root: the non-root nodes that have a child
InternalBelowRoot(n) == {v \in 1..LastNode(n) : 4 * v + 1 <= LastNode(n)}

\* How many prf_hash_function calls computed node v
TimesHashed(v) == Cardinality({c \in 1..Len(hashed) : hashed[c].index = v})

\* C7 as stated: a full iteration makes n_leaves + (internal nodes below the
\* root) calls and computes no node twice.
C7_NoRecompute ==
    FullIteration =>
        /\ Len(hashed) = n_leaves + Cardinality(InternalBelowRoot(n_leaves))
        /\ \A v \in 1..LastNode(n_leaves) : TimesHashed(v) <= 1

RECURSIVE Depth(_)
Depth(v) == IF v = 0 THEN 0 ELSE 1 + Depth((v - 1) \div 4)

RECURSIVE Ancestors(_)
Ancestors(v) == IF v = 0 THEN {} ELSE {v} \cup Ancestors((v - 1) \div 4)

\* The nodes above the first leaf that also lie above a leaf one level
\* deeper than the first leaf
Revisited(n) ==
    {a \in Ancestors(MinNode(n)) \ {MinNode(n)} :
        \E v \in MinNode(n)..LastNode(n) :
            Depth(v) > Depth(MinNode(n)) /\ a \in Ancestors(v)}

\* C7 amended: a full iteration computes every non-root node of the tree,
\* the nodes of Revisited twice and every other node once, and makes
\* n_leaves + (internal nodes below the root) + |Revisited| calls.
C7_RecomputeOnlyRevisited ==
    FullIteration =>
        /\ \A v \in 1..LastNode(n_leaves) :
               TimesHashed(v) = IF v \in Revisited(n_leaves) THEN 2 ELSE 1
        /\ Len(hashed) = n_leaves + Cardinality(InternalBelowRoot(n_leaves))
                            + Cardinality(Revisited(n_leaves))
        /\ \A c \in 1..Len(hashed) :
               /\ hashed[c].index \in 1..LastNode(n_leaves)
               /\ hashed[c].out = NodeValue(hashed[c].index)

\* C7 witness: the full iteration of the 17 leaf tree, whose leaves lie at
\* depths 2 and 3, hashed node 1 twice
C7_Witness ==
    /\ FullIteration
    /\ n_leaves = 17
    /\ TimesHashed(1) = 2

\* ------------------------------------------------------------------------
\* SHAKE256 on a message shorter than the rate (FIPS 202, section 6.2), and
\* the F function of the WOTS chain: the reference the chain is compared with
\* ------------------------------------------------------------------------

\* Byte p (from 0) of the padded 200 byte block: M || 0x1F .. 0x80 at the
\* end of the 136 byte rate, zero capacity
PaddedByte(msg, p) ==
    IF p < Len(msg) THEN msg[p + 1]
    ELSE ByteXor(IF p = Len(msg) THEN 31 ELSE 0, IF p = 135 THEN 128 ELSE 0)

\* Lane j (from 0) of a byte string: bit 8 i + t is bit t of byte 8 j + i
RefLane(bytes, j) ==
    {b \in 0..63 : (bytes[8 * j + (b \div 8) + 1] \div (2^(b % 8))) % 2 = 1}

\* The lanes of an SPX_N byte value
RefLanes(bytes) == Tuple([j \in 1..(Len(bytes) \div 8) |-> RefLane(bytes, j - 1)])

\* Byte p (from 0) of a sequence of lanes
RefByte(lanes, p) ==
    LET bit(t) == IF (8 * (p % 8) + t) \in lanes[(p \div 8) + 1] THEN 2^t ELSE 0
    IN  bit(0) + bit(1) + bit(2) + bit(3) + bit(4) + bit(5) + bit(6) + bit(7)

\* The first len bytes of SHAKE256(msg)
Shake256(msg, len) ==
    LET block == Tuple([p \in 1..200 |-> PaddedByte(msg, p - 1)])
        S     == Tuple([j \in 1..25 |-> RefLane(block, j - 1)])
        out   == KeccakP1600(S)
    IN  Tuple([p \in 1..len |-> RefByte(out, p - 1)])

\* The ADRS of step kk of WOTS chain c of the leaf
RefAddr(c, kk) ==
    [leaf_addr EXCEPT ![SPX_OFFSET_TYPE + 1] = SPX_ADDR_TYPE_WOTS,
                      ![SPX_OFFSET_CHAIN_ADDR + 1] = c,
                      ![SPX_OFFSET_HASH_ADDR + 1] = kk]

\* F(PK.seed, ADRS, value) = SHAKE256(PK.seed || ADRS || value, 8 SPX_N bits)
RefF(value, c, kk) == Shake256(pub_seed \o RefAddr(c, kk) \o value, SPX_N)

\* ------------------------------------------------------------------------
\* wots_gen_leafx1: the chain loop, one chain after the other
\* ------------------------------------------------------------------------

ChainInit ==
    /\ ForsIdle
    /\ PermIdle
    /\ KeyIdle
    /\ BlockIdle
    /\ RoundIdle
    /\ LeafIdle
    /\ SPX_N \in {16, 24, 32}
    /\ sign_leaf \in BOOLEAN
    /\ wots_steps \in {StepVector(s) : s \in
                          IF sign_leaf THEN 0..(NumStepVectors - 1) ELSE {0}}
    \* the masking differs from leaf to leaf and from chain to chain
    /\ split = wots_steps[1] % (NumMasks + 1)
    /\ pub_seed = Tuple([p \in 1..SPX_N |-> TestByte(1, p)])
    /\ leaf_addr = Tuple([p \in 1..32 |-> TestByte(2, p)])
    /\ cpc = "start"
    /\ chain_i = 0
    /\ chain_k = 0
    /\ wots_k = {}
    /\ not_last_f = 0
    /\ chain_state = UnwrittenState
    /\ wots_sig = Tuple([c \in 1..MaxChains |-> UnwrittenBytes])
    /\ pk_buffer = Tuple([c \in 1..MaxChains |-> UnwrittenBytes])
    /\ f_calls = Tuple([c \in 1..MaxChains |-> << >>])
    /\ presented = Tuple([c \in 1..MaxChains |-> << >>])
    /\ ref_chain = Tuple([c \in 1..MaxChains |-> << >>])
    \* info->merkle_iter walks the SPX_WOTS_LEN chain secrets of the leaf
    /\ n_leaves = SPX_WOTS_LEN
    /\ stop_value = SPX_WOTS_LEN - 1
    /\ LET r == initialize_prf_iter(SPX_WOTS_LEN, SPX_WOTS_LEN - 1, Seed)
       IN  /\ it = r.it
           /\ hashed = r.calls
    /\ emitted = << >>

\* Lines 42-59: the chain's secret from the iterator, the address, the
\* initial chain state
StartChain ==
    /\ cpc = "start"
    /\ chain_i < MaxChains
    /\ LET r           == next_prf_iter(it)
           temp_buffer == PrfOutputBytes(r.output,
                                         (split + chain_i) % (NumMasks + 1))
           addr        == SetAddrByte(
                              SetAddrByte(
                                  SetAddrByte(leaf_addr, SPX_OFFSET_TYPE,
                                              SPX_ADDR_TYPE_WOTS),
                                  SPX_OFFSET_CHAIN_ADDR, chain_i),
                              SPX_OFFSET_HASH_ADDR, 0)
       IN  /\ it' = r.it
           /\ emitted' = Append(emitted, [ret |-> r.ret, output |-> r.output,
                                          calls |-> r.calls])
           /\ hashed' = hashed \o r.calls
           /\ wots_k' = Bits32(wots_steps[chain_i + 1]) \cup wots_k_mask(sign_leaf)
           /\ leaf_addr' = addr
           /\ chain_state' = set_up_f_block(UnwrittenState, temp_buffer,
                                            pub_seed, addr)
           /\ ref_chain' = [ref_chain EXCEPT ![chain_i + 1] =
                                << SecretBytes(r.output[Len(r.output)]) >>]
    /\ not_last_f' = 1
    /\ chain_k' = 0
    /\ cpc' = "loop"
    /\ UNCHANGED << SPX_N, sign_leaf, wots_steps, split, pub_seed, chain_i,
                    wots_sig, pk_buffer, f_calls, presented,
                    n_leaves, stop_value, permVars, keyVars, blockVars,
                 roundVars, leafVars,
                 forsVars >>

\* One pass of for (k=0;; k++), lines 65-104
ChainStep ==
    /\ cpc = "loop"
    /\ wots_sig' =
           IF Bits32(chain_k) = wots_k
           THEN [wots_sig EXCEPT ![chain_i + 1] =
                    untransform_f(SigValue(chain_state, OFFSET_HASH, not_last_f))]
           ELSE wots_sig
    /\ IF not_last_f = 0
       THEN /\ cpc' = "top"
            /\ UNCHANGED << chain_k, not_last_f, chain_state, f_calls,
                            presented, ref_chain >>
       ELSE LET nl == ClearNotLast(chain_k, not_last_f)
                c  == chain_i + 1
            IN  /\ not_last_f' = nl
                /\ chain_state' =
                       increment_hash_addr_in_chain_state(f_transform(chain_state, nl))
                /\ chain_k' = chain_k + 1
                /\ f_calls' = [f_calls EXCEPT ![c] = Append(@, nl)]
                /\ presented' = [presented EXCEPT ![c] = Append(@,
                       Tuple([m \in 1..N |->
                           Xor3(chain_state[m + OFFSET_HASH],
                                chain_state[m + OFFSET_HASH + 25],
                                chain_state[m + OFFSET_HASH + 50])]))]
                /\ ref_chain' = [ref_chain EXCEPT ![c] = Append(@,
                       RefF(ref_chain[c][Len(ref_chain[c])], chain_i, chain_k))]
                /\ cpc' = "loop"
    /\ UNCHANGED << SPX_N, sign_leaf, wots_steps, split, pub_seed, leaf_addr,
                    chain_i, wots_k, pk_buffer, iterVars, permVars, keyVars, blockVars,
                 roundVars, leafVars,
                 forsVars >>

\* Line 112 and the step of the for (i ..) loop
FinishChain ==
    /\ cpc = "top"
    /\ pk_buffer' = [pk_buffer EXCEPT ![chain_i + 1] =
                        untransform_f(SubSeq(chain_state, OFFSET_HASH + 1,
                                             OFFSET_HASH + N))]
    /\ chain_i' = chain_i + 1
    /\ cpc' = IF chain_i + 1 < MaxChains THEN "start" ELSE "done"
    /\ UNCHANGED << SPX_N, sign_leaf, wots_steps, split, pub_seed, leaf_addr,
                    chain_k, wots_k, not_last_f, chain_state, wots_sig,
                    f_calls, presented, ref_chain, iterVars, permVars, keyVars, blockVars,
                 roundVars, leafVars,
                 forsVars >>

ChainNext == StartChain \/ ChainStep \/ FinishChain

SpecChain == ChainInit /\ [][ChainNext]_vars

\* The flags of the w - 1 f_transform calls of a chain
ChainFlags == Tuple([c \in 1..(SPX_WOTS_W - 1) |-> IF c < SPX_WOTS_W - 1 THEN 1 ELSE 0])

\* C3: the keep_blinded flags of a chain's f_transform calls are always a
\* prefix of 1 (14 times), 0, and are all 15 of them once the chain loop has
\* been left; this for every chain, signing or not.
C3_FifteenCalls ==
    \A c \in 1..Len(f_calls) :
        /\ Len(f_calls[c]) <= SPX_WOTS_W - 1
        /\ f_calls[c] = SubSeq(ChainFlags, 1, Len(f_calls[c]))
        /\ (c <= chain_i \/ (c = chain_i + 1 /\ cpc = "top"))
               => f_calls[c] = ChainFlags

\* C3 witness: the second chain of a non-signing leaf has left its loop
\* after 15 calls
C3_Witness ==
    /\ cpc = "top"
    /\ ~sign_leaf
    /\ chain_i = 1
    /\ Len(f_calls[2]) = 15

\* C8: at the k-th permutation call of a chain (k = 0 .. w-2) the xor of
\* the three running hash slots of the chain state is F applied k times to
\* the xor of the three seed shares.
C8_PresentedIsLogical ==
    \A c \in 1..Len(presented) :
        \A kk \in 1..Len(presented[c]) :
            presented[c][kk] = RefLanes(ref_chain[c][kk])

\* C8 witness: the last call of a chain (k = w-2) was made, the chain state
\* before it holding three non-zero shares
C8_Witness ==
    /\ cpc = "loop"
    /\ Len(presented[1]) = SPX_WOTS_W - 1
    /\ split # 0
    /\ SPX_N = 24

\* Chain c has passed the step at which its signature value is saved
SigSaved(c) ==
    \/ c <= chain_i
    \/ c = chain_i + 1 /\ cpc = "top"
    \/ c = chain_i + 1 /\ cpc = "loop" /\ chain_k > wots_steps[c]

\* C9: on the signing leaf, signature slot i holds the chain secret after
\* wots_steps[i] applications of F and public key column i the secret after
\* w - 1 applications, whatever the masking of the secret's shares.
C9_SigAndPk ==
    \A c \in 1..Len(wots_sig) :
        /\ (sign_leaf /\ SigSaved(c)) =>
               wots_sig[c] = ref_chain[c][wots_steps[c] + 1]
        /\ (c <= chain_i) => pk_buffer[c] = ref_chain[c][SPX_WOTS_W]

\* C9 witness: a signing leaf finished its chains, one of them with step
\* w - 1 and one with a step in the middle, from masked shares
C9_Witness ==
    /\ cpc = "done"
    /\ sign_leaf
    /\ wots_steps[1] = 7
    /\ wots_steps[2] = 15
    /\ split # 0

\* ------------------------------------------------------------------------
\* A caller of the chain state functions: set_up_f_block, then f_transform
\* with keep_blinded = 1 and increment_hash_addr_in_chain_state in any order
\* ------------------------------------------------------------------------

FreeInit ==
    /\ ForsIdle
    /\ PermIdle
    /\ IterIdle
    /\ KeyIdle
    /\ BlockIdle
    /\ RoundIdle
    /\ LeafIdle
    /\ SPX_N \in {16, 24, 32}
    /\ split \in 0..NumMasks
    /\ pub_seed = Tuple([p \in 1..SPX_N |-> TestByte(1, p)])
    /\ leaf_addr = Tuple([p \in 1..32 |-> TestByte(2, p)])
    /\ cpc = "free"
    /\ chain_state = UnwrittenState
    /\ f_calls = << << >> >>
    /\ chain_k = 0
    /\ sign_leaf = FALSE
    /\ wots_steps = << >>
    /\ chain_i = 0
    /\ wots_k = {}
    /\ not_last_f = 1
    /\ wots_sig = << >>
    /\ pk_buffer = << >>
    /\ presented = << >>
    /\ ref_chain = << >>

FreeUnchanged ==
    UNCHANGED << SPX_N, sign_leaf, wots_steps, split, pub_seed, leaf_addr,
                 chain_i, wots_k, not_last_f, wots_sig, pk_buffer, presented,
                 ref_chain, iterVars, permVars, keyVars, blockVars,
                 roundVars, leafVars,
                 forsVars >>

\* set_up_f_block on a chain state no code has written
FreeSetUp ==
    /\ cpc = "free"
    /\ chain_state' = set_up_f_block(chain_state,
                                     PrfOutputBytes(<< 0, 1 >>, split),
                                     pub_seed, leaf_addr)
    /\ cpc' = "set"
    /\ UNCHANGED << f_calls, chain_k >>
    /\ FreeUnchanged

\* f_transform(chain_state, 1)
FreeTransform ==
    /\ cpc = "set"
    /\ Len(f_calls[1]) + chain_k < MaxFreeOps
    /\ chain_state' = f_transform(chain_state, 1)
    /\ f_calls' = << Append(f_calls[1], 1) >>
    /\ UNCHANGED << cpc, chain_k >>
    /\ FreeUnchanged

\* increment_hash_addr_in_chain_state(chain_state); chain_k counts the calls
FreeIncrement ==
    /\ cpc = "set"
    /\ Len(f_calls[1]) + chain_k < MaxFreeOps
    /\ chain_state' = increment_hash_addr_in_chain_state(chain_state)
    /\ chain_k' = chain_k + 1
    /\ UNCHANGED << cpc, f_calls >>
    /\ FreeUnchanged

FreeNext == FreeSetUp \/ FreeTransform \/ FreeIncrement

SpecFree == FreeInit /\ [][FreeNext]_vars

\* The lanes (from 0) of share x that hold its running hash
HashLanes(x) == (OFFSET_HASH + 25 * x)..(OFFSET_HASH + 25 * x + N - 1)

\* C10: after set_up_f_block and any f_transform(cs, 1) and
\* increment_hash_addr_in_chain_state calls, every lane of share 1 and of
\* share 2 outside its N running hash lanes is zero.
C10_SeedAddrPadInShare0 ==
    (cpc = "set") =>
        \A j \in 25..74 :
            (j \notin HashLanes(1) \cup HashLanes(2)) => chain_state[j + 1] = Zero64

\* C10 witness: two f_transform calls and an increment were made, shares 1
\* and 2 hold non-zero running hashes and share 0 the seed, address and
\* padding
C10_Witness ==
    /\ cpc = "set"
    /\ Len(f_calls[1]) >= 2
    /\ chain_k >= 1
    /\ \A x \in {1, 2} : \E j \in HashLanes(x) : chain_state[j + 1] # Zero64
    /\ chain_state[1] # Zero64
    /\ chain_state[16 + 1] = {63}

\* ------------------------------------------------------------------------
\* initialize_prf_key(tree, idx_leaf, ctx)
\* ------------------------------------------------------------------------

\* The SHAKE parameter sets: 128s, 128f, 192s, 192f, 256s, 256f
ParamSets ==
    { [n |-> 16, d |-> 7,  full_height |-> 63],
      [n |-> 16, d |-> 22, full_height |-> 66],
      [n |-> 24, d |-> 7,  full_height |-> 63],
      [n |-> 24, d |-> 22, full_height |-> 66],
      [n |-> 32, d |-> 8,  full_height |-> 64],
      [n |-> 32, d |-> 17, full_height |-> 68] }

\* The tree arguments tried: 0, the low FULL_HEIGHT - TREE_HEIGHT bits of
\* NumTrees test patterns, and the uint64_t with every bit set
NumTrees == 2

\* What the schedule entries may hold before the call
StaleKeys == {Unset, << 9, 9 >>}

KeyInit ==
    /\ ForsIdle
    /\ PermIdle
    /\ IterIdle
    /\ BlockIdle
    /\ RoundIdle
    /\ LeafIdle
    /\ \E ps \in ParamSets :
           /\ SPX_N = ps.n
           /\ params = [d |-> ps.d, full_height |-> ps.full_height]
    /\ \E t \in 0..(NumTrees + 1) :
           tree = IF t = 0 THEN {}
                  ELSE IF t = NumTrees + 1 THEN 0..63
                  ELSE TestLane(t, 0) \cap (0..(SPX_FULL_HEIGHT - SPX_TREE_HEIGHT - 1))
    /\ idx_leaf \in {0, 1, 2^SPX_TREE_HEIGHT - 1}
    /\ \E stale \in StaleKeys :
           ctx = [sk_seed |-> Seed,
                  merkle_key |-> Tuple([l \in 1..SPX_D |-> stale]),
                  fors_seed |-> stale]
    /\ key_loc = [pc |-> "entry", level |-> 0, tree_shift |-> 0,
                  parent_seed |-> << >>, addrs |-> << >>, leaves |-> << >>]
    /\ sign_leaf = FALSE
    /\ wots_steps = << >>
    /\ split = 0
    /\ pub_seed = << >>
    /\ leaf_addr = << >>
    /\ cpc = "off"
    /\ chain_i = 0
    /\ chain_k = 0
    /\ wots_k = {}
    /\ not_last_f = 0
    /\ chain_state = << >>
    /\ wots_sig = << >>
    /\ pk_buffer = << >>
    /\ f_calls = << >>
    /\ presented = << >>
    /\ ref_chain = << >>

\* Lines 201-213: parent_seed, the memcpy of sk_seed, the loop's initial values
KeyEntry ==
    /\ key_loc.pc = "entry"
    /\ ctx' = [ctx EXCEPT !.merkle_key = Store(@, SPX_D - 1, ctx.sk_seed)]
    /\ key_loc' = [key_loc EXCEPT !.pc = "loop",
                                  !.level = SPX_D - 1,
                                  !.tree_shift = SPX_FULL_HEIGHT - SPX_TREE_HEIGHT,
                                  !.parent_seed = ctx.sk_seed]
    /\ UNCHANGED << params, tree, idx_leaf, permVars, iterVars, chainVars,
                 blockVars, roundVars, leafVars,
                 forsVars >>

\* Lines 214-245: one pass of the loop
KeyLoop ==
    /\ key_loc.pc = "loop"
    /\ LET r == KeyLevel(ctx, key_loc)
       IN  /\ ctx' = r.ctx
           /\ key_loc' = r.loc
    /\ UNCHANGED << params, tree, idx_leaf, permVars, iterVars, chainVars,
                 blockVars, roundVars, leafVars,
                 forsVars >>

KeyNext == KeyEntry \/ KeyLoop

SpecKey == KeyInit /\ [][KeyNext]_vars

\* tree >> shift as a number shifted: the positions of tree at and above
\* shift, moved down (none when shift is 64 or more)
RefShift(shift) == {b \in 0..63 : (b + shift) \in tree}

\* C11 as stated: at every level the PRF address has type PRF_MERKLE, layer
\* = level and tree address tree >> (FULL_HEIGHT - (level+1) TREE_HEIGHT).
C11_TreeAddrAsStated ==
    \A a \in 1..Len(key_loc.addrs) :
        LET lvl == key_loc.addrs[a].level
            adr == key_loc.addrs[a].addr
        IN  /\ adr.type = SPX_ADDR_TYPE_PRF_MERKLE
            /\ adr.layer = lvl
            /\ adr.tree = RefShift(SPX_FULL_HEIGHT - (lvl + 1) * SPX_TREE_HEIGHT)

\* C11 amended: the levels are taken from d-1 down to 0, and at every level
\* the PRF address has type PRF_MERKLE, layer = level and tree address
\* tree >> (FULL_HEIGHT - (d - level) TREE_HEIGHT), 0 when the shift is 64
\* or more.
C11_TreeAddrByLevel ==
    \A a \in 1..Len(key_loc.addrs) :
        LET lvl == key_loc.addrs[a].level
            adr == key_loc.addrs[a].addr
        IN  /\ lvl = SPX_D - a
            /\ adr.type = SPX_ADDR_TYPE_PRF_MERKLE
            /\ adr.layer = lvl
            /\ adr.tree = RefShift(SPX_FULL_HEIGHT - (SPX_D - lvl) * SPX_TREE_HEIGHT)

\* C11 witness: the call returned for the parameter set whose top level
\* shift is 64, on a tree with bits at the top
C11_Witness ==
    /\ key_loc.pc = "done"
    /\ SPX_FULL_HEIGHT - SPX_TREE_HEIGHT = 64
    /\ 63 \in tree
    /\ Len(key_loc.addrs) = SPX_D

\* The prf indices from the root down to node v, the root excluded
RECURSIVE PathDown(_)
PathDown(v) == IF v = 0 THEN << >> ELSE Append(PathDown((v - 1) \div 4), v)

\* The leaf of the PRF tree rooted at root that external index i selects:
\* the PRF applied along the path to node i + min_node
RefPrfLeaf(root, i, n) == root \o PathDown(i + MinNode(n))

\* The index of the layer lvl-1 Merkle tree within its layer lvl parent
RefChildIndex(lvl) ==
    BitsValue({b \in 0..(SPX_TREE_HEIGHT - 1) :
                  (b + (lvl - 1) * SPX_TREE_HEIGHT) \in tree})

\* The external index of the child seeds of a Merkle tree's PRF tree, which
\* follow the WOTS_LEN chain secrets of each of its 2^TREE_HEIGHT leaves
RefSeedIndex(j) == SPX_WOTS_LEN * (2^SPX_TREE_HEIGHT) + j

RefSeedLeaves == (SPX_WOTS_LEN + 1) * (2^SPX_TREE_HEIGHT)

\* C12: when initialize_prf_key returns, merkle_key[d-1] is sk_seed,
\* merkle_key[L-1] is the leaf of the PRF tree rooted at merkle_key[L] that
\* the layer L-1 tree's index within its parent selects, fors_seed the leaf
\* of the tree rooted at merkle_key[0] that idx_leaf selects; all d+1
\* entries hold these values whatever they held before.
C12_KeySchedule ==
    (key_loc.pc = "done") =>
        /\ Len(ctx.merkle_key) = SPX_D
        /\ ctx.merkle_key[SPX_D] = ctx.sk_seed
        /\ \A lvl \in 1..(SPX_D - 1) :
               ctx.merkle_key[lvl] =
                   RefPrfLeaf(ctx.merkle_key[lvl + 1],
                              RefSeedIndex(RefChildIndex(lvl)), RefSeedLeaves)
        /\ ctx.fors_seed =
               RefPrfLeaf(ctx.merkle_key[1], RefSeedIndex(idx_leaf), RefSeedLeaves)

\* C12 witness: the call returned on a ctx whose schedule held other values,
\* with a tree whose bottom index is not zero
C12_Witness ==
    /\ key_loc.pc = "done"
    /\ RefChildIndex(1) # 0
    /\ idx_leaf # 0
    /\ ctx.fors_seed \notin StaleKeys
    /\ \A l \in 1..SPX_D : ctx.merkle_key[l] \notin StaleKeys

\* ------------------------------------------------------------------------
\* A caller of set_up_f_block, f_transform and
\* increment_hash_addr_in_chain_state, in any order
\* ------------------------------------------------------------------------

\* Calls made on the chain state
MaxBlockOps == 3

\* The ADRS structures passed: 0 has hash address 0, 1 has hash address
\* 255, 2 differs from 0 in bit 0 of byte 0
BlockAddrs == 0..2

BlockAddr(a) ==
    Tuple([p \in 1..32 |->
        IF p = SPX_OFFSET_HASH_ADDR + 1 THEN (IF a = 1 THEN 255 ELSE 0)
        ELSE IF p = 1 /\ a = 2 THEN ByteXor(TestByte(2, p), 1)
        ELSE TestByte(2, p)])

\* What the buffer holds before the first call: nothing written, or lanes
\* left by some other use
PriorBuffer(v) ==
    IF v = 0 THEN UnwrittenState ELSE Tuple([j \in 1..75 |-> TestLane(30, j - 1)])

BlockInit ==
    /\ ForsIdle
    /\ PermIdle
    /\ IterIdle
    /\ KeyIdle
    /\ RoundIdle
    /\ LeafIdle
    /\ SPX_N \in {16, 24, 32}
    /\ \E v \in {0, 1} :
           /\ split = v
           /\ chain_state = PriorBuffer(v)
    /\ pub_seed = Tuple([p \in 1..SPX_N |-> TestByte(1, p)])
    /\ leaf_addr = BlockAddr(0)
    /\ cpc = "block"
    /\ blk_op = [op |-> "none", arg |-> 0]
    /\ blk_count = 0
    /\ f_calls = << >>
    /\ chain_k = 0
    /\ sign_leaf = FALSE
    /\ wots_steps = << >>
    /\ chain_i = 0
    /\ wots_k = {}
    /\ not_last_f = 1
    /\ wots_sig = << >>
    /\ pk_buffer = << >>
    /\ presented = << >>
    /\ ref_chain = << >>

BlockUnchanged ==
    UNCHANGED << SPX_N, sign_leaf, wots_steps, split, pub_seed, cpc, chain_i,
                 chain_k, wots_k, not_last_f, wots_sig, pk_buffer, f_calls,
                 presented, ref_chain, iterVars, permVars, keyVars, roundVars,
                 leafVars,
                 forsVars >>

\* set_up_f_block(chain_state, prf_output, ctx, leaf_addr)
BlockSetUp ==
    /\ cpc = "block"
    /\ blk_count < MaxBlockOps
    /\ \E a \in BlockAddrs :
           /\ leaf_addr' = BlockAddr(a)
           /\ chain_state' = set_up_f_block(chain_state,
                                            PrfOutputBytes(<< 0, 1 >>, split),
                                            pub_seed, BlockAddr(a))
           /\ blk_op' = [op |-> "set_up", arg |-> a]
    /\ blk_count' = blk_count + 1
    /\ BlockUnchanged

\* f_transform(chain_state, keep_blinded)
BlockTransform ==
    /\ cpc = "block"
    /\ blk_op.op # "none"
    /\ blk_count < MaxBlockOps
    /\ \E keep_blinded \in {0, 1} :
           /\ chain_state' = f_transform(chain_state, keep_blinded)
           /\ blk_op' = [op |-> "f_transform", arg |-> keep_blinded]
    /\ blk_count' = blk_count + 1
    /\ UNCHANGED leaf_addr
    /\ BlockUnchanged

\* increment_hash_addr_in_chain_state(chain_state)
BlockIncrement ==
    /\ cpc = "block"
    /\ blk_op.op # "none"
    /\ blk_count < MaxBlockOps
    /\ chain_state' = increment_hash_addr_in_chain_state(chain_state)
    /\ blk_op' = [op |-> "increment", arg |-> 0]
    /\ blk_count' = blk_count + 1
    /\ UNCHANGED leaf_addr
    /\ BlockUnchanged

BlockNext == BlockSetUp \/ BlockTransform \/ BlockIncrement

SpecBlock == BlockInit /\ [][BlockNext]_vars

\* Share x of the three SPX_N byte shares the caller passes as prf_output
ShareBytes(x) ==
    SubSeq(PrfOutputBytes(<< 0, 1 >>, split), x * SPX_N + 1, (x + 1) * SPX_N)

\* The chain state the claim describes, lane l (from 0)
ExpectedBlockLane(l) ==
    IF l \in 0..(N - 1) THEN RefLane(pub_seed, l)
    ELSE IF l \in N..(N + 3) THEN RefLane(leaf_addr, l - N)
    ELSE IF l \in (N + 4)..(2 * N + 3) THEN RefLane(ShareBytes(0), l - (N + 4))
    ELSE IF l \in (N + 29)..(2 * N + 28) THEN RefLane(ShareBytes(1), l - (N + 29))
    ELSE IF l \in (N + 54)..(2 * N + 53) THEN RefLane(ShareBytes(2), l - (N + 54))
    ELSE IF l = 2 * N + 4 THEN {0, 1, 2, 3, 4}
    ELSE IF l = 16 THEN {63}
    ELSE {}

\* C13: after set_up_f_block all 75 lanes are determined by pub_seed, the
\* address and the three shares, whatever the buffer held: lanes [0,N) the
\* seed, [N,N+4) the address, [N+4,2N+4), [N+29,2N+29), [N+54,2N+54) the
\* shares (little-endian), lane 2N+4 = 0x1f, lane 16 = 1<<63, every other
\* lane 0, the offset returned N+4; a set-up that differs from the one
\* before it only in the address differs from it only in lanes [N,N+4).
C13_SetUpLanes ==
    /\ [](blk_op.op = "set_up" =>
            /\ Len(chain_state) = 75
            /\ \A l \in 0..74 : chain_state[l + 1] = ExpectedBlockLane(l)
            /\ OFFSET_HASH = N + 4)
    /\ [][(blk_op.op = "set_up" /\ blk_op'.op = "set_up") =>
            \A l \in 0..74 :
                chain_state'[l + 1] # chain_state[l + 1] => l \in N..(N + 3)]_vars

\* C13 witness: set_up_f_block ran with the changed address on a buffer
\* that held a used chain state, and left three non-zero shares
C13_Witness ==
    /\ blk_op = [op |-> "set_up", arg |-> 2]
    /\ blk_count = MaxBlockOps
    /\ \A x \in 0..2 : chain_state[N + 4 + 25 * x + 1] # Zero64
    /\ chain_state[N + 1] # RefLane(BlockAddr(0), 0)

\* C14: f_transform writes only running hash lanes.  With keep_blinded = 1
\* the N hash lanes of each of the three shares get lanes [0,N) of the
\* corresponding output share; with keep_blinded = 0 only share 0's N hash
\* lanes are written, with the unmasked F output; every other lane keeps
\* its value (with keep_blinded = 0 also the hash lanes of shares 1 and 2).
C14_TransformFrame ==
    [][(blk_op'.op = "f_transform") =>
          LET kb  == blk_op'.arg
              out == do_threshold_keccak_permutation(chain_state, UnwrittenState, kb)
              F   == KeccakP1600(Collapse(chain_state))
          IN  /\ Len(chain_state') = 75
              /\ \A l \in HashLanes(0) :
                     chain_state'[l + 1] =
                         IF kb = 1 THEN out[l - OFFSET_HASH + 1] ELSE F[l - OFFSET_HASH + 1]
              /\ \A x \in {1, 2} : \A l \in HashLanes(x) :
                     chain_state'[l + 1] =
                         IF kb = 1 THEN out[25 * x + (l - 25 * x - OFFSET_HASH) + 1]
                         ELSE chain_state[l + 1]
              /\ \A l \in 0..74 :
                     l \notin (HashLanes(0) \cup HashLanes(1) \cup HashLanes(2))
                         => chain_state'[l + 1] = chain_state[l + 1]]_vars

\* C14 witness: f_transform(cs, 0) ran on a masked chain state that
\* f_transform(cs, 1) had written before, and left shares 1 and 2 in place
C14_Witness ==
    /\ blk_op = [op |-> "f_transform", arg |-> 0]
    /\ blk_count = 3
    /\ split = 1
    /\ \A x \in {1, 2} :
           /\ chain_state[OFFSET_HASH + 25 * x + 1] # Zero64
           /\ chain_state[OFFSET_HASH + 25 * x + 1] # RefLane(ShareBytes(x), 0)

\* The lane (from 0) and the byte of it that hold the hash address
HashAddrLane == N + SPX_OFFSET_HASH_ADDR \div 8

HashAddrByte == SPX_OFFSET_HASH_ADDR % 8

\* C15: the increment changes only lane N + OFFSET_HASH_ADDR/8 of share 0,
\* adding 1 << (8 (OFFSET_HASH_ADDR mod 8)) modulo 2^64; in a WOTS chain
\* started with hash address 0 the k-th f_transform call (k = 0..w-2) sees
\* hash address byte k, while every other address byte, the public seed
\* and the padding are as set_up_f_block wrote them.
C15_HashAddrCounts ==
    /\ []((cpc = "loop" /\ not_last_f = 1) =>
            /\ chain_k \in 0..(SPX_WOTS_W - 2)
            /\ \A l \in 0..(N - 1) : chain_state[l + 1] = RefLane(pub_seed, l)
            /\ \A l \in 0..3 :
                   chain_state[N + l + 1] = RefLane(RefAddr(chain_i, chain_k), l)
            /\ \A l \in (2 * N + 4)..24 :
                   chain_state[l + 1] = IF l = 2 * N + 4 THEN {0, 1, 2, 3, 4}
                                        ELSE IF l = 16 THEN {63} ELSE {})
    /\ [][(chain_k' = chain_k + 1) =>
            /\ \A l \in 0..74 :
                   (l # HashAddrLane /\ l \notin
                        (HashLanes(0) \cup HashLanes(1) \cup HashLanes(2)))
                       => chain_state'[l + 1] = chain_state[l + 1]
            /\ \A b \in 0..7 :
                   RefByte(chain_state', 8 * HashAddrLane + b) =
                       IF b = HashAddrByte
                       THEN (RefByte(chain_state, 8 * HashAddrLane + b) + 1) % 256
                       ELSE RefByte(chain_state, 8 * HashAddrLane + b)]_vars

\* C15 witness: the second chain is about to make its last masked
\* f_transform call, k = w - 3, after w - 3 increments
C15_Witness ==
    /\ cpc = "loop"
    /\ not_last_f = 1
    /\ chain_i = 1
    /\ chain_k = SPX_WOTS_W - 3
    /\ RefByte(chain_state, 8 * N + SPX_OFFSET_HASH_ADDR) = SPX_WOTS_W - 3
    /\ Len(f_calls[2]) = SPX_WOTS_W - 3

\* ------------------------------------------------------------------------
\* The step program of do_threshold_keccak_permutation
\* ------------------------------------------------------------------------

\* A pass of the loop, seen from the pass counter alone
LoopPass ==
    /\ pc = "run"
    /\ ~ks.returned
    /\ passes' = passes + 1

\* The for (round = 0;;) loop is sequential code: while the call has not
\* returned it makes its next pass
SpecPermFair == SpecPerm /\ WF_passes(LoopPass)

\* count copies of op
Repeat(op, count) == Tuple([k \in 1..count |-> op])

\* The programs as the claim gives them
ClaimedProgram(masked_output) ==
    IF masked_output = 0
    THEN Repeat("Keccak_3", 3) \o << "Do_Xor" >> \o Repeat("Keccak_1", 21)
             \o << "Output_1" >>
    ELSE Repeat("Keccak_3", 3) \o << "Do_Xor" >> \o Repeat("Keccak_1", 18)
             \o << "Do_Xor" >> \o Repeat("Keccak_3", 3) \o << "Output_3" >>

\* The Keccak rounds among the first count steps of a program
RoundsIn(program, count) ==
    Cardinality({k \in 1..count : program[k] \in {"Keccak_1", "Keccak_3"}})

\* The state the rounds of a step work on: the xor of the shares in a
\* masked round, share 0 in an unmasked one
WorkingState(A, op) == IF op = "Keccak_3" THEN Collapse(A) ELSE SubSeq(A, 1, 25)

\* C16: for both values of output_threshold the call runs exactly 24 Keccak
\* rounds, with round constants 0..23 in order, each once: 3 masked rounds,
\* an xor collapse, 21 unmasked rounds and the unmasked output, or 3 masked,
\* the collapse, 18 unmasked, an xor split, 3 masked and the masked output;
\* the xor steps do not advance the round counter, and the loop always
\* terminates, at an output step.
C16_RoundSchedule ==
    /\ [](pc = "run" =>
            /\ ks.program = ClaimedProgram(output_threshold)
            /\ ks.state \in 1..(Len(ks.program) + 1)
            /\ ks.round = RoundsIn(ks.program, ks.state - 1)
            /\ ks.returned <=>
                   /\ ks.state = Len(ks.program) + 1
                   /\ ks.program[ks.state - 1] \in {"Output_1", "Output_3"}
            /\ ks.returned => ks.round = 24)
    /\ [][(pc = "run" /\ pc' = "run" /\ ks' # ks) =>
            LET op == ks.program[ks.state]
            IN  /\ ks'.state = ks.state + 1
                /\ op \in {"Keccak_1", "Keccak_3"} =>
                       /\ ks'.round = ks.round + 1
                       /\ WorkingState(ks'.A, op) =
                              StdRnd(WorkingState(ks.A, op), ks.round)
                /\ op \notin {"Keccak_1", "Keccak_3"} => ks'.round = ks.round]_vars
    /\ (pc = "run") ~> (pc = "run" /\ ks.returned)

\* C16 witness: a masked-output call on masked shares is at its output
\* step, after 27 steps and 24 rounds
C16_Witness ==
    /\ pc = "run"
    /\ ks.returned
    /\ output_threshold = 1
    /\ ks.state = 28
    /\ ks.round = 24
    /\ Collapse(instate) # SubSeq(instate, 1, 25)

\* ------------------------------------------------------------------------
\* case Keccak_3 on its own, at any round index
\* ------------------------------------------------------------------------

\* Masked rounds run one after the other
MaxRounds == 2

RoundInit ==
    /\ ForsIdle
    /\ PermIdle
    /\ IterIdle
    /\ ChainIdle
    /\ KeyIdle
    /\ BlockIdle
    /\ LeafIdle
    /\ \E m \in 1..NumLogical : \E q \in 0..NumMasks : \E ir \in 0..23 :
           rnd = [pc |-> "switch", round |-> ir, done |-> 0,
                  start |-> ShareTriple(m, q), A |-> ShareTriple(m, q)]

\* case Keccak_3: ... round += 1; break;
RoundKeccak3 ==
    /\ rnd.pc = "switch"
    /\ rnd.done < MaxRounds
    /\ rnd.round < 24
    /\ rnd' = [rnd EXCEPT !.A = Keccak_3(rnd.A, rnd.round),
                          !.start = rnd.A,
                          !.round = rnd.round + 1,
                          !.done = rnd.done + 1]
    /\ UNCHANGED << permVars, iterVars, chainVars, keyVars, blockVars, leafVars,
                 forsVars >>

RoundNext == RoundKeccak3

SpecRound == RoundInit /\ [][RoundNext]_vars

\* Share x (0, 1, 2) of a 75 lane state
ShareOf(T, x) == SubSeq(T, 25 * x + 1, 25 * x + 25)

\* The cross products (~b share, c share) the claim gives output shares
\* 0, 1 and 2
ClaimedProducts ==
    << << << 0, 0 >>, << 1, 1 >>, << 2, 2 >> >>,
       << << 0, 1 >>, << 1, 2 >>, << 2, 0 >> >>,
       << << 0, 2 >>, << 1, 0 >>, << 2, 1 >> >> >>

\* The share-wise round of the claim: theta, rho and pi on each share, chi
\* with the products above, the round constant on lane (0, 0) of share 0
ShareWiseRound(T, ir) ==
    LET B == Tuple([x \in 1..3 |-> StdPi(StdRho(StdTheta(ShareOf(T, x - 1))))])
        prod(j, p) ==
            LET px == (j - 1) % 5
                py == (j - 1) \div 5
            IN  AndNot(At(B[p[1] + 1], px + 1, py), At(B[p[2] + 1], px + 2, py))
    IN  Tuple([k \in 1..75 |->
            LET x == (k - 1) \div 25
                j == ((k - 1) % 25) + 1
                P == ClaimedProducts[x + 1]
                e == Xor(Xor3(prod(j, P[1]), prod(j, P[2]), prod(j, P[3])), B[x + 1][j])
            IN  IF k = 1 THEN Xor(e, StdRC[ir + 1]) ELSE e])

\* C17: one masked round is a share-wise implementation of one standard
\* round: the xor of the three output shares is the standard round (theta,
\* rho, pi, chi, iota with that round's constant) of the xor of the input
\* shares, for every state and round index; each chi output lane takes the
\* cross products (0,0),(1,1),(2,2) / (0,1),(1,2),(2,0) / (0,2),(1,0),(2,1)
\* of its share, nine in all, and the round constant goes into lane (0,0)
\* of share 0 only.
C17_MaskedRound ==
    (rnd.done > 0) =>
        /\ Collapse(rnd.A) = StdRnd(Collapse(rnd.start), rnd.round - 1)
        /\ rnd.A = ShareWiseRound(rnd.start, rnd.round - 1)
        /\ Cardinality({ClaimedProducts[x][k] : x \in 1..3, k \in 1..3}) = 9

\* C17 witness: the last round, index 23, ran on a masked state that an
\* earlier masked round had left
C17_Witness ==
    /\ rnd.done = 2
    /\ rnd.round = 24
    /\ \A x \in 0..2 : ShareOf(rnd.start, x) # Collapse(rnd.start)
    /\ ShareOf(rnd.A, 1) # ShareOf(rnd.A, 2)

\* Rounds ir .. last - 1 of the standard permutation
RECURSIVE StdRoundsUpTo(_, _, _)
StdRoundsUpTo(S, ir, last) ==
    IF Len(S) = 25 /\ ir < last THEN StdRoundsUpTo(StdRnd(S, ir), ir + 1, last) ELSE S

\* C18: Do_Xor replaces every lane of share 0 by share0 ^ share1 ^ share2
\* and leaves shares 1 and 2 unchanged; as the collapse it leaves the
\* logical state in share 0, and as the split after the unmasked rounds
\* (share 0 = T, shares 1 and 2 stale) the xor of the three shares
\* afterwards is T.
C18_DoXor ==
    [][(pc = "run" /\ ~ks.returned /\ ks.program[ks.state] = "Do_Xor"
            /\ passes' = passes + 1) =>
          /\ \A j \in 1..25 :
                 ks'.A[j] = Xor3(ks.A[j], ks.A[j + 25], ks.A[j + 50])
          /\ \A j \in 26..75 : ks'.A[j] = ks.A[j]
          /\ ks.round = 3 =>
                 ShareOf(ks'.A, 0) = StdRoundsUpTo(Collapse(instate), 0, 3)
          /\ ks.round > 3 =>
                 /\ ShareOf(ks.A, 0) = StdRoundsUpTo(Collapse(instate), 0, ks.round)
                 /\ Collapse(ks'.A) = ShareOf(ks.A, 0)]_vars

\* C18 witness: the split of a masked-output call has just run on masked
\* input: 23 passes made, shares 1 and 2 as the collapse left them
C18_Witness ==
    /\ pc = "run"
    /\ output_threshold = 1
    /\ passes = 23
    /\ ks.program[passes] = "Do_Xor"
    /\ ks.round = 21
    /\ ShareOf(ks.A, 1) # ShareOf(ks.A, 2)
    /\ ShareOf(ks.A, 0) # Collapse(ks.A)

\* No call so far was the one that emits the stop node
NotExhausted == it # NoIter /\ Len(emitted) <= stop_value

\* C19: after initialize_prf_iter and after every next_prf_iter call that
\* does not exhaust the iterator, node[0] = 0 and node_value[0] is the
\* caller's seed (never hashed or overwritten), node[num_node-1] = cur_node,
\* and for every depth k in 1..num_node-1: node[k-1] = (node[k]-1)/4,
\* count[k] = (node[k]-1) mod 4, in 0..3, and node_value[k] is the PRF of
\* node_value[k-1] with prf index node[k].
C19_PathInvariant ==
    /\ it # NoIter =>
           /\ it.node_value[1] = Seed
           /\ \A c \in 1..Len(hashed) : hashed[c].index # 0
    /\ NotExhausted =>
           /\ it.node[1] = 0
           /\ it.num_node \in 1..12
           /\ it.node[it.num_node] = it.cur_node
           /\ \A k \in 1..(it.num_node - 1) :
                  /\ it.node[k] = (it.node[k + 1] - 1) \div 4
                  /\ it.count[k + 1] = (it.node[k + 1] - 1) % 4
                  /\ it.count[k + 1] \in 0..3
                  /\ it.node_value[k + 1] =
                         prf_hash_function(it.node_value[k], it.node[k + 1])
                  /\ it.node_value[k + 1] = NodeValue(it.node[k + 1])

\* C19 witness: the iterator is not exhausted and its path is one node
\* longer than the path to the first leaf: a call wrapped to the next depth
C19_Witness ==
    /\ NotExhausted
    /\ Len(emitted) >= 1
    /\ it.num_node = Len(PathStack(it.min_node)) + 2
    /\ it.count[it.num_node] = 1

\* ------------------------------------------------------------------------
\* eval_single_prf_leaf(output, root, i, n, ctx, addr), call by call
\* ------------------------------------------------------------------------

\* The root values passed: the seed, and the value of another tree's leaf
LeafRoots == {Seed, << 0, 2, 9 >>}

LeafInit ==
    /\ ForsIdle
    /\ PermIdle
    /\ IterIdle
    /\ ChainIdle
    /\ KeyIdle
    /\ BlockIdle
    /\ RoundIdle
    /\ \E n \in LeafCounts : \E leaf \in 0..(n - 1) : \E root \in LeafRoots :
           leaf_loc = [pc |-> "entry", root |-> root, leaf |-> leaf, n |-> n,
                       i |-> leaf, stack |-> << >>, sp |-> 0, j |-> 0,
                       prev_node |-> Unset, output |-> Unset, calls |-> << >>]

\* Lines 38-53: i += (n+1)/3, the bottom-up path on the stack, prev_node
LeafPath ==
    /\ leaf_loc.pc = "entry"
    /\ LET v     == leaf_loc.i + ((leaf_loc.n + 1) \div 3)
           stack == PathStack(v)
       IN  leaf_loc' = [leaf_loc EXCEPT !.i = 0,
                                        !.stack = stack,
                                        !.sp = Len(stack),
                                        !.j = Len(stack) - 1,
                                        !.prev_node = leaf_loc.root,
                                        !.pc = IF Len(stack) - 1 >= 0
                                               THEN "loop" ELSE "done"]
    /\ UNCHANGED << permVars, iterVars, chainVars, keyVars, blockVars, roundVars,
                 forsVars >>

\* Lines 54-58: one pass of for (j = sp-1; j >= 0; j--)
LeafHash ==
    /\ leaf_loc.pc = "loop"
    /\ LET index == leaf_loc.stack[leaf_loc.j + 1]
           out   == prf_hash_function(leaf_loc.prev_node, index)
       IN  leaf_loc' = [leaf_loc EXCEPT
                           !.output = out,
                           !.prev_node = out,
                           !.calls = Append(@, [index |-> index,
                                                in |-> leaf_loc.prev_node,
                                                out |-> out]),
                           !.j = leaf_loc.j - 1,
                           !.pc = IF leaf_loc.j - 1 >= 0 THEN "loop" ELSE "done"]
    /\ UNCHANGED << permVars, iterVars, chainVars, keyVars, blockVars, roundVars,
                 forsVars >>

LeafNext == LeafPath \/ LeafHash

SpecLeaf == LeafInit /\ [][LeafNext]_vars

\* C20: eval_single_prf_leaf for external index i of an n-leaf tree makes
\* exactly depth(v) PRF calls, v = i + (n+1)/3; the prf indices are the
\* nodes of the root-to-v path, top-down, the root excluded; the first call
\* takes the caller's root value, each later call the output of the call
\* before it; v >= 1, so at least one call is made and the output written.
C20_SingleLeafCalls ==
    (leaf_loc.pc = "done") =>
        LET v     == leaf_loc.leaf + (leaf_loc.n + 1) \div 3
            calls == leaf_loc.calls
        IN  /\ v >= 1
            /\ Len(calls) = Depth(v)
            /\ Len(calls) >= 1
            /\ Tuple([c \in 1..Len(calls) |-> calls[c].index]) = PathDown(v)
            /\ \A c \in 1..Len(calls) :
                   /\ calls[c].index # 0
                   /\ c > 1 => (calls[c - 1].index = (calls[c].index - 1) \div 4)
                   /\ calls[c].in = IF c = 1 THEN leaf_loc.root ELSE calls[c - 1].out
            /\ calls[1].index \in 1..4
            /\ calls[Len(calls)].index = v
            /\ leaf_loc.output # Unset
            /\ leaf_loc.output = calls[Len(calls)].out
            /\ leaf_loc.output = eval_single_prf_leaf(leaf_loc.root, leaf_loc.leaf,
                                                      leaf_loc.n)

\* C20 witness: the call returned for a leaf four levels down in the big
\* tree, from a root that is not the seed
C20_Witness ==
    /\ leaf_loc.pc = "done"
    /\ leaf_loc.n = BigLeaves
    /\ leaf_loc.root # Seed
    /\ Len(leaf_loc.calls) = 4
    /\ leaf_loc.leaf > 0

\* ------------------------------------------------------------------------
\* The stack[10] and 12-entry arrays over the whole range of tree sizes
\* ------------------------------------------------------------------------

\* eval_single_prf_leaf and the iterator assume 1 < n < 2^19
TreeLimit == 524288

\* The trees walked in full: the small ones and the largest one allowed
DeepCounts == LeafCounts \cup {TreeLimit - 1}

\* The first node of depth d: (4^d - 1) / 3
DepthStart(d) == (4 ^ d - 1) \div 3

\* The leaves eval_single_prf_leaf is called on: the first and the last,
\* and the leaves on either side of each change of depth
DeepLeaves(n) ==
    {l \in {0, n - 1} \cup
           {DepthStart(d) - MinNode(n) + e : d \in 1..11, e \in {-1, 0}} :
        l \in 0..(n - 1)}

\* One caller: of the iterator, up to the last leaf, or of
\* eval_single_prf_leaf
DeepInit ==
    /\ ForsIdle
    /\ PermIdle
    /\ ChainIdle
    /\ KeyIdle
    /\ BlockIdle
    /\ RoundIdle
    /\ emitted = << >>
    /\ hashed = << >>
    /\ it = NoIter
    /\ \/ /\ n_leaves \in DeepCounts
          /\ stop_value = n_leaves - 1
          /\ LeafIdle
       \/ /\ n_leaves = 0
          /\ stop_value = 0
          /\ \E n \in DeepCounts : \E leaf \in DeepLeaves(n) :
                 leaf_loc = [pc |-> "entry", root |-> Seed, leaf |-> leaf,
                             n |-> n, i |-> leaf, stack |-> << >>, sp |-> 0,
                             j |-> 0, prev_node |-> Unset, output |-> Unset,
                             calls |-> << >>]

\* initialize_prf_iter
DeepStart ==
    /\ n_leaves > 1
    /\ it = NoIter
    /\ it' = initialize_prf_iter(n_leaves, stop_value, Seed).it
    /\ UNCHANGED << n_leaves, stop_value, emitted, hashed, permVars, chainVars,
                    keyVars, blockVars, roundVars, leafVars,
                 forsVars >>

\* next_prf_iter, called while the iterator stands on a leaf up to stop_node
DeepStep ==
    /\ it # NoIter
    /\ it.cur_node \in it.min_node..it.stop_node
    /\ it' = next_prf_iter(it).it
    /\ UNCHANGED << n_leaves, stop_value, emitted, hashed, permVars, chainVars,
                    keyVars, blockVars, roundVars, leafVars,
                 forsVars >>

DeepNext == DeepStart \/ DeepStep \/ LeafPath \/ LeafHash

SpecDeep == DeepInit /\ [][DeepNext]_vars

\* The array entries from index k on hold what they held before the call
UnwrittenFrom(iter, k) ==
    \A x \in (k + 1)..12 :
        /\ iter.node[x] = UnsetInt
        /\ iter.count[x] = UnsetInt
        /\ iter.node_value[x] = Unset

\* C21: for every tree size 1 < n < 2^19 the path from the root to any leaf
\* has at most 10 nodes below the root.  eval_single_prf_leaf and
\* initialize_prf_iter push at most 10 entries on stack[10]; the iterator,
\* until it is advanced past stop_node, has num_node <= 11 and has written
\* no entry of node, count or node_value from index num_node on, so every
\* index it used is below 11.
C21_PathFitsArrays ==
    /\ leaf_loc.pc \in {"loop", "done"} =>
           /\ leaf_loc.n \in 2..(TreeLimit - 1)
           /\ leaf_loc.sp = Depth(leaf_loc.leaf + MinNode(leaf_loc.n))
           /\ leaf_loc.sp \in 1..10
           /\ leaf_loc.j \in -1..9
    /\ it # NoIter =>
           /\ n_leaves \in 2..(TreeLimit - 1)
           /\ Depth(it.min_node) \in 1..10
           /\ Depth(it.stop_node) \in 1..10
           /\ it.num_node \in 2..11
           /\ it.cur_node \in it.min_node..it.stop_node =>
                  it.num_node = Depth(it.cur_node) + 1
           /\ UnwrittenFrom(it, it.num_node)

\* C21 witness: eval_single_prf_leaf returned for the last leaf of the
\* largest tree, having filled stack[0..9]
C21_Witness ==
    /\ leaf_loc.pc = "done"
    /\ leaf_loc.n = TreeLimit - 1
    /\ leaf_loc.leaf = leaf_loc.n - 1
    /\ leaf_loc.sp = 10
    /\ Len(leaf_loc.calls) = 10

\* ------------------------------------------------------------------------
\* The first external node over the whole range of tree sizes
\* ------------------------------------------------------------------------

\* A caller of initialize_prf_iter for each n, 1 < n < 2^19, up to the last
\* leaf
RangeInit ==
    /\ ForsIdle
    /\ PermIdle
    /\ ChainIdle
    /\ KeyIdle
    /\ BlockIdle
    /\ RoundIdle
    /\ LeafIdle
    /\ n_leaves \in 2..(TreeLimit - 1)
    /\ stop_value = n_leaves - 1
    /\ it = NoIter
    /\ emitted = << >>
    /\ hashed = << >>

RangeNext == DeepStart

SpecRange == RangeInit /\ [][RangeNext]_vars

\* The trees whose nodes are compared one with another
MaxCompared == 64

\* Node a is a proper ancestor of node v
IsAncestor(a, v) == a # v /\ a \in Ancestors(v) \cup {0}

\* The children of node v
Children(v) == (4 * v + 1)..(4 * v + 4)

\* C22: with min_node as initialize_prf_iter computes it, (n+1)/3, and the
\* last leaf min_node + n - 1 (its stop_node for stop = n - 1),
\* 4*min_node + 1 lies beyond the last leaf, so no leaf is an ancestor of
\* another, and the first child of min_node - 1 is at most the last leaf,
\* so every node below min_node has a child in the tree: the leaves are
\* exactly the childless nodes.
C22_LeavesAreChildless ==
    it # NoIter =>
        LET min_node == it.min_node
            last     == it.stop_node
        IN  /\ min_node = (n_leaves + 1) \div 3
            /\ min_node >= 1
            /\ last = min_node + n_leaves - 1
            /\ 4 * min_node + 1 > last
            /\ 4 * (min_node - 1) + 1 <= last
            /\ n_leaves <= MaxCompared =>
                   /\ \A a, v \in min_node..last : ~ IsAncestor(a, v)
                   /\ \A v \in 0..(min_node - 1) :
                          \E c \in Children(v) : c <= last
                   /\ {v \in 0..last : \A c \in Children(v) : c > last}
                          = min_node..last

\* C22 witness: the largest tree, whose leaves are nodes 174762..699048
C22_Witness ==
    /\ it # NoIter
    /\ n_leaves = TreeLimit - 1
    /\ it.min_node = 174762
    /\ it.stop_node = 699048

\* ------------------------------------------------------------------------
\* fors.c: fors_sign, with treehashx1 taken as one fors_gen_leafx1 call per
\* leaf of the tree, in increasing addr_idx order.  The authentication
\* path, the roots and pk are written by treehashx1 and thash alone.
\* ------------------------------------------------------------------------

\* The byte offset of the tree index in the ADRS structure (SHAKE layout)
SPX_OFFSET_TREE_INDEX == 28

SPX_ADDR_TYPE_FORSTREE == 3

\* copy_keypair_addr(out, in): the layer and tree bytes and the two key
\* pair bytes of in, over out
copy_keypair_addr(out, in) ==
    Tuple([p \in 1..32 |->
        IF (p - 1) \in (0..15) \cup {22, 23} THEN in[p] ELSE out[p]])

\* set_tree_index(addr, tree_index): four bytes, most significant first
set_tree_index(addr, tree_index) ==
    Tuple([p \in 1..32 |->
        IF (p - 1) \in SPX_OFFSET_TREE_INDEX..(SPX_OFFSET_TREE_INDEX + 3)
        THEN (tree_index \div (256 ^ (SPX_OFFSET_TREE_INDEX + 3 - (p - 1)))) % 256
        ELSE addr[p]])

\* (m[offset >> 3] >> (~offset & 0x7)) & 1
MessageBit(m, offset) == (m[(offset \div 8) + 1] \div (2 ^ (7 - (offset % 8)))) % 2

\* indices[i] of message_to_indices: the bits i*a .. i*a + a - 1 of m, the
\* first one most significant
RECURSIVE IndexBits(_, _, _, _)
IndexBits(m, i, a, j) ==
    IF j < a
    THEN MessageBit(m, i * a + j) * (2 ^ (a - 1 - j)) + IndexBits(m, i, a, j + 1)
    ELSE 0

\* message_to_indices(indices, m) with SPX_FORS_TREES = k, SPX_FORS_HEIGHT = a
message_to_indices(m, k, a) == Tuple([t \in 1..k |-> IndexBits(m, t - 1, a, 0)])

\* sig[j] = temp_buffer[j] of share 0 alone
RevealedSecret_Share0(temp_buffer) == SubSeq(temp_buffer, 1, SPX_N)

\* Lines 130-132: sig[j] = temp_buffer[j] ^ temp_buffer[j + SPX_N]
\*                         ^ temp_buffer[j + 2*SPX_N]
RevealedSecret(temp_buffer) ==
    Tuple([j \in 1..SPX_N |->
        ByteXor(ByteXor(temp_buffer[j], temp_buffer[j + SPX_N]),
                temp_buffer[j + 2 * SPX_N])])

\* SPX_FORS_TREES and SPX_FORS_HEIGHT of the parameter sets tried
MaxForsTrees == 2

MaxForsHeight == 2

\* The messages signed
NumMessages == 3

ForsMessage(x) == << TestByte(60 + x, 1), TestByte(60 + x, 2) >>

\* fors_addr, the address of the FORS instance
ForsAddr == Tuple([p \in 1..32 |-> TestByte(3, p)])

ForsInit ==
    /\ PermIdle
    /\ IterIdle
    /\ KeyIdle
    /\ BlockIdle
    /\ RoundIdle
    /\ LeafIdle
    /\ SPX_N = 16
    /\ \E k \in 1..MaxForsTrees : \E a \in 1..MaxForsHeight :
       \E x \in 1..NumMessages :
           /\ fors = [pc |-> "start", k |-> k, a |-> a, m |-> ForsMessage(x),
                      indices |-> << >>, i |-> 0, idx |-> 0, sig |-> << >>,
                      leaves |-> << >>]
           \* the masking differs from message to message and leaf to leaf
           /\ split = x % (NumMasks + 1)
    /\ pub_seed = Tuple([p \in 1..SPX_N |-> TestByte(1, p)])
    \* fors_info = {0}
    /\ leaf_addr = Tuple([p \in 1..32 |-> 0])
    /\ sign_leaf = FALSE
    /\ wots_steps = << >>
    /\ cpc = "off"
    /\ chain_i = 0
    /\ chain_k = 0
    /\ wots_k = {}
    /\ not_last_f = 0
    /\ chain_state = << >>
    /\ wots_sig = << >>
    /\ pk_buffer = << >>
    /\ f_calls = << >>
    /\ presented = << >>
    /\ ref_chain = << >>

ForsUnchanged ==
    UNCHANGED << SPX_N, sign_leaf, wots_steps, split, pub_seed, cpc, chain_i,
                 chain_k, wots_k, not_last_f, chain_state, wots_sig, pk_buffer,
                 f_calls, presented, ref_chain, permVars, keyVars, blockVars,
                 roundVars, leafVars >>

\* Lines 93-112: the addresses, the iterator over all k * 2^a secrets, the
\* indices
ForsStart ==
    /\ fors.pc = "start"
    /\ LET count_fors_leaves_per_tree == 2 ^ fors.a
           count_fors_leaves == fors.k * count_fors_leaves_per_tree
           r == initialize_prf_iter(count_fors_leaves, count_fors_leaves, Seed)
       IN  /\ n_leaves' = count_fors_leaves
           /\ stop_value' = count_fors_leaves
           /\ it' = r.it
           /\ hashed' = hashed \o r.calls
    /\ leaf_addr' = copy_keypair_addr(leaf_addr, ForsAddr)
    /\ fors' = [fors EXCEPT !.indices = message_to_indices(fors.m, fors.k, fors.a),
                            !.i = 0,
                            !.pc = "tree"]
    /\ UNCHANGED emitted
    /\ ForsUnchanged

\* Lines 114-139: the secret of the selected leaf of tree i goes to sig
ForsReveal ==
    /\ fors.pc = "tree"
    /\ fors.i < fors.k
    /\ LET count_fors_leaves_per_tree == 2 ^ fors.a
           count_fors_leaves == fors.k * count_fors_leaves_per_tree
           value == eval_single_prf_leaf(
                        Seed,
                        fors.indices[fors.i + 1] + fors.i * count_fors_leaves_per_tree,
                        count_fors_leaves)
           temp_buffer == PrfOutputBytes(value, split)
       IN  fors' = [fors EXCEPT !.sig = Append(@, RevealedSecret(temp_buffer)),
                                !.idx = 0,
                                !.pc = "leaves"]
    /\ UNCHANGED << iterVars, leaf_addr >>
    /\ ForsUnchanged

\* fors_gen_leafx1(leaf, ctx, addr_idx, info), called by treehashx1 for the
\* next leaf of tree i
ForsLeaf ==
    /\ fors.pc = "leaves"
    /\ fors.idx < 2 ^ fors.a
    /\ LET idx_offset  == fors.i * (2 ^ fors.a)
           addr_idx    == fors.idx + idx_offset
           r           == next_prf_iter(it)
           temp_buffer == PrfOutputBytes(r.output,
                                         (split + addr_idx + 1) % (NumMasks + 1))
           addr        == SetAddrByte(set_tree_index(leaf_addr, addr_idx),
                                      SPX_OFFSET_TYPE, SPX_ADDR_TYPE_FORSTREE)
           state       == f_transform(
                              set_up_f_block(UnwrittenState, temp_buffer,
                                             pub_seed, addr),
                              0)
           leaf        == untransform_f(SubSeq(state, OFFSET_HASH + 1,
                                               OFFSET_HASH + N))
       IN  /\ it' = r.it
           /\ emitted' = Append(emitted, [ret |-> r.ret, output |-> r.output,
                                          calls |-> r.calls])
           /\ hashed' = hashed \o r.calls
           /\ leaf_addr' = addr
           /\ fors' = [fors EXCEPT
                          !.leaves = Append(@, [addr_idx |-> addr_idx,
                                                ret |-> r.ret,
                                                value |-> r.output,
                                                leaf |-> leaf]),
                          !.idx = fors.idx + 1]
    /\ UNCHANGED << n_leaves, stop_value >>
    /\ ForsUnchanged

\* Lines 142-147: treehashx1 returns, on to the next tree
ForsTreeDone ==
    /\ fors.pc = "leaves"
    /\ fors.idx = 2 ^ fors.a
    /\ fors' = [fors EXCEPT !.i = fors.i + 1,
                            !.pc = IF fors.i + 1 < fors.k THEN "tree" ELSE "done"]
    /\ UNCHANGED << iterVars, leaf_addr >>
    /\ ForsUnchanged

ForsNext == ForsStart \/ ForsReveal \/ ForsLeaf \/ ForsTreeDone

SpecFors == ForsInit /\ [][ForsNext]_vars

\* The ADRS fors_pk_from_sig hashes the revealed secret of a leaf under
ForsTreeAddr(tree_index) ==
    [p \in 1..32 |->
        IF p - 1 = SPX_OFFSET_TYPE THEN SPX_ADDR_TYPE_FORSTREE
        ELSE IF p - 1 = 31 THEN tree_index % 256
        ELSE IF p - 1 \in 28..30 THEN 0
        ELSE IF p - 1 \in 16..27 /\ p - 1 \notin {22, 23} THEN 0
        ELSE ForsAddr[p]] \o << >>

\* F(PK.seed, ADRS, sk), the leaf the verifier derives from a secret
ForsRefLeaf(sk, tree_index) ==
    Shake256(pub_seed \o ForsTreeAddr(tree_index) \o sk, SPX_N)

\* The external index of the leaf selected in tree t (from 1)
Selected(t) == fors.indices[t] + (t - 1) * (2 ^ fors.a)

\* C23: in fors_sign the c-th fors_gen_leafx1 call is for addr_idx = c - 1,
\* next_prf_iter returns that index and hands over the triple of external
\* leaf addr_idx of the k * 2^a leaf PRF tree, the one eval_single_prf_leaf
\* gives, and the leaf is F of the xor of its shares; the secret revealed
\* for tree i is the xor of the shares of leaf indices[i] + i * 2^a, so its
\* F image is the tree leaf at that position; no call of the k * 2^a finds
\* the iterator exhausted.
C23_ForsSecrets ==
    fors.pc \in {"tree", "leaves", "done"} =>
        /\ n_leaves = fors.k * (2 ^ fors.a)
        /\ Len(emitted) = Len(fors.leaves)
        /\ Len(fors.leaves) <= n_leaves
        /\ fors.pc = "done" => Len(fors.leaves) = n_leaves
        /\ it.cur_node = it.min_node + Len(emitted)
        /\ it.cur_node <= it.stop_node
        /\ \A c \in 1..Len(fors.leaves) :
               LET L == fors.leaves[c]
               IN  /\ L.addr_idx = c - 1
                   /\ L.ret = L.addr_idx
                   /\ L.value # Unset
                   /\ L.value = eval_single_prf_leaf(Seed, L.addr_idx, n_leaves)
                   /\ L.value = NodeValue(MinNode(n_leaves) + L.addr_idx)
                   /\ emitted[c].calls # << >>
        /\ Len(fors.leaves) > 0 =>
               LET L == fors.leaves[Len(fors.leaves)]
               IN  L.leaf = ForsRefLeaf(SecretBytes(MinNode(n_leaves) + L.addr_idx),
                                        L.addr_idx)
        /\ \A t \in 1..Len(fors.sig) :
               /\ fors.indices[t] \in 0..(2 ^ fors.a - 1)
               /\ fors.sig[t] = SecretBytes(MinNode(n_leaves) + Selected(t))
               /\ Selected(t) < Len(fors.leaves) =>
                      /\ fors.leaves[Selected(t) + 1].addr_idx = Selected(t)
                      /\ fors.leaves[Selected(t) + 1].leaf =
                             ForsRefLeaf(fors.sig[t], Selected(t))

\* C23 witness: fors_sign went through two trees of four leaves, the
\* selected leaf of the second tree is not its first, and the shares of the
\* secrets were masked
C23_Witness ==
    /\ fors.pc = "done"
    /\ fors.k = 2
    /\ fors.a = 2
    /\ fors.indices[2] > 0
    /\ split # 0
    /\ Len(fors.leaves) = 8
    /\ Len(fors.sig) = 2

\* ------------------------------------------------------------------------
\* wots_gen_leafx1: the writes to info->wots_sig
\* ------------------------------------------------------------------------

\* Signature slot c (from 1) holds bytes untransform_f wrote
SlotWritten(sig, c) == sig[c] # UnwrittenBytes

\* The pass of for (k=0;; k++) about to run is the one at k = wots_steps[i]
\* of the signing leaf
AtSignStep ==
    /\ cpc = "loop"
    /\ sign_leaf
    /\ chain_k = wots_steps[chain_i + 1]

\* C24: on a leaf that is not the signing leaf no slot of wots_sig is ever
\* written.  On the signing leaf, with every wots_steps[i] <= w - 1, slot i
\* is unwritten until the pass k = wots_steps[i] of chain i, that pass
\* writes it, k grows by one from pass to pass, and no step changes a
\* written slot or writes any other slot: each slot is written exactly
\* once, and is written when its chain is left.
C24_SigWrites ==
    /\ [](\A c \in 1..Len(wots_sig) :
            /\ ~sign_leaf => ~SlotWritten(wots_sig, c)
            /\ wots_steps[c] \in 0..(SPX_WOTS_W - 1)
            /\ chain_k \in 0..(SPX_WOTS_W - 1)
            /\ sign_leaf =>
                   (SlotWritten(wots_sig, c) <=> SigSaved(c)))
    /\ [][/\ \A c \in 1..Len(wots_sig) :
                 wots_sig'[c] # wots_sig[c] =>
                     /\ c = chain_i + 1
                     /\ AtSignStep
                     /\ ~SlotWritten(wots_sig, c)
          /\ AtSignStep =>
                 /\ ~SlotWritten(wots_sig, chain_i + 1)
                 /\ SlotWritten(wots_sig', chain_i + 1)
          /\ (cpc = "loop" /\ cpc' = "loop") =>
                 (chain_k' = chain_k + 1 /\ chain_i' = chain_i)
          /\ Len(wots_sig') = Len(wots_sig)]_vars

\* C24 witness: the signing leaf has left its second chain, whose slot was
\* written at the last pass (step w - 1), after the first chain's slot was
\* written in the middle of the chain
C24_Witness ==
    /\ sign_leaf
    /\ cpc = "top"
    /\ chain_i = 1
    /\ wots_steps[1] = 7
    /\ wots_steps[2] = 15
    /\ SlotWritten(wots_sig, 1)
    /\ SlotWritten(wots_sig, 2)

\* ------------------------------------------------------------------------
\* initialize_prf_key: the external indices handed to eval_single_prf_leaf
\* ------------------------------------------------------------------------

\* The first external index after the WOTS chain secrets of the
\* 2^TREE_HEIGHT leaves of a Merkle tree
SeedRangeStart == SPX_WOTS_LEN * (2 ^ SPX_TREE_HEIGHT)

\* C25: with idx_leaf < 2^TREE_HEIGHT, at every level of initialize_prf_key
\* the index handed to eval_single_prf_leaf is leaf + WOTS_LEN * 2^TREE_HEIGHT
\* with leaf in 0 .. 2^TREE_HEIGHT - 1 (idx_leaf at level 0), so it lies in
\* [WOTS_LEN * 2^TREE_HEIGHT, (WOTS_LEN + 1) * 2^TREE_HEIGHT): below the
\* leaf count n = (WOTS_LEN + 1) * 2^TREE_HEIGHT handed over with it and
\* never among the indices of the WOTS chain secrets; this for every tree,
\* also one with bits above FULL_HEIGHT - TREE_HEIGHT.
C25_SeedIndexRange ==
    idx_leaf < 2 ^ SPX_TREE_HEIGHT =>
        \A a \in 1..Len(key_loc.leaves) :
            LET L == key_loc.leaves[a]
            IN  /\ L.level = SPX_D - a
                /\ L.n = (SPX_WOTS_LEN + 1) * (2 ^ SPX_TREE_HEIGHT)
                /\ L.n \in 2..(TreeLimit - 1)
                /\ L.i \in SeedRangeStart..(L.n - 1)
                /\ L.i \notin 0..(SeedRangeStart - 1)
                /\ (L.i - SeedRangeStart) \in 0..(2 ^ SPX_TREE_HEIGHT - 1)
                /\ L.level = 0 => L.i - SeedRangeStart = idx_leaf
                /\ L.level > 0 => L.i - SeedRangeStart = RefChildIndex(L.level)

\* C25 witness: the call returned for a tree with every bit set, so that
\* every level above 0 used the last index of its PRF tree, and level 0 too
C25_Witness ==
    /\ key_loc.pc = "done"
    /\ tree = 0..63
    /\ idx_leaf = 2 ^ SPX_TREE_HEIGHT - 1
    /\ Len(key_loc.leaves) = SPX_D
    /\ \A a \in 1..Len(key_loc.leaves) : key_loc.leaves[a].i = key_loc.leaves[a].n - 1

====
